---- MODULE Spec2Model ----
(***************************************************************************)
(* A model of the extraction and geometric-resolution core of gpzu-bot:    *)
(* the zone resolver (utils/spatial.py, parsers/tab_parser.py), the        *)
(* intersection matchers (parsers/tab_parser.py), the container and field  *)
(* resolution of the EGRN/KPT parsers (parsers/egrn_parser.py,             *)
(* parsers/kpt_parser.py).                                                 *)
(*                                                                         *)
(* Geometry lives on a strip of unit squares ("cells") 0 .. 2,             *)
(* cell k being [k, k+1] x [0, 1].  A shapely geometry is the set of cells *)
(* it covers; its area is the number of cells; a point is a rational       *)
(* abscissa num/den on the line y = 1/2.                                   *)
(***************************************************************************)
EXTENDS Integers, Sequences, FiniteSets, TLC

VARIABLES
    parcel_coords,   \* the parcel contour handed to a resolver or matcher
    layer,           \* the ordered list of zone / restriction / object records
    input_bytes,     \* the byte buffer handed to parse_egrn_xml / parse_kpt_xml
    document,        \* the parsed element a field is extracted from
    xpaths,          \* the priority-ordered candidate paths of the field
    tree,            \* the parsed EGRN document handed to _extract_is_land
    call,            \* the operation that has been applied ("init": none yet)
    result,          \* what the operation returned
    examined,        \* the indices of the records whose geometry the call tested
    frames,          \* the local variables of each running core invocation
    journal,         \* the TU journal workbook, as it is on disk
    lock,            \* the holder of the journal's lock file
    workers,         \* the calls of build_tu_docs_with_outgoing in progress
    chat,            \* the FSM state and data of one chat, and what it was sent
    gp_data,         \* the GPData handed to perform_spatial_analysis
    layers,          \* the layer files perform_spatial_analysis reads
    download         \* one call of download_with_retries

\* the arguments of the core's calls: no operation changes them
core == <<parcel_coords, layer, input_bytes, document, xpaths, tree>>

\* the state of the application around the core
shell == <<frames, journal, lock, workers, chat, gp_data, layers, download>>

\* what a call of a core function leaves alone
inputs == <<core, shell>>

vars == <<inputs, call, result, examined>>

(* ----------------------------- bounds ---------------------------------- *)

MaxRecords == 2
MaxMembers == 2
MaxMatches == 2
MaxContours == 2
MaxObjects == 2
MaxZoneRecords == 2
MaxWorkflows == 2
MaxProcesses == 2
MaxRows == 2
MaxDocuments == 2
MaxApplications == 2
MaxRetries == 4

(* ----------------------------- values ---------------------------------- *)

\* The strip: three unit squares.
Cells == {0, 1, 2}

\* Python's None, as a return value.
None == [kind |-> "None"]
\* An exception leaving the call.
Raised == [kind |-> "raise"]

\* layer record without geometry (row.get('geometry') is None)
NoGeom == [kind |-> "none"]
\* A geometry read from a layer file.  fault says which GEOS operations fail
\* on it with an exception: "pred" the predicates (contains, intersects),
\* "overlay" the overlay operation (intersection); "ok" none.
Geom(cells, fault) == [kind |-> "geom", cells |-> cells, fault |-> fault]

Faults == {"ok", "pred", "overlay"}

Names == {"A", "B"}
ZoneNames == <<"A", "B", "C", "D">>

\* The axis-parallel rectangle over cells a .. b-1, as a contour.
Rect(a, b) == << <<a, 0>>, <<b, 0>>, <<b, 1>>, <<a, 1>> >>

\* Contours a parcel can arrive with: none, too short to be a ring,
\* rings that enclose nothing (A, B, A and A, A, A), and rectangles.
TooShort == << <<0, 0>>, <<1, 0>> >>
Flat == << <<0, 0>>, <<1, 0>>, <<0, 0>> >>
Same == << <<0, 0>>, <<0, 0>>, <<0, 0>> >>
ParcelContours ==
    {<<>>, TooShort, Flat, Same}
    \cup {Rect(ab[1], ab[2]) : ab \in {p \in (0 .. 3) \X (0 .. 3) : p[1] < p[2]}}

SeqsUpTo(S, n) == UNION {[1 .. k -> S] : k \in 0 .. n}

(* ------------------------- shapely, on the strip ----------------------- *)

MinOf(S) == CHOOSE m \in S : \A s \in S : m <= s
MaxOf(S) == CHOOSE m \in S : \A s \in S : m >= s

RECURSIVE SumOf(_)
SumOf(S) == IF S = {} THEN 0
            ELSE LET x == CHOOSE x \in S : TRUE IN x + SumOf(S \ {x})

\* Polygon(coords), repaired by buffer(0) when invalid: the cells enclosed.
\* A ring with fewer than 3 distinct points, or of zero height, encloses
\* nothing (the repaired polygon is empty).
PolygonCells_bbox(coords) ==
    LET xs == {coords[i][1] : i \in DOMAIN coords}
    IN {k \in Cells : MinOf(xs) <= k /\ k < MaxOf(xs)}
PolygonCells(coords) ==
    LET pts == {coords[i] : i \in DOMAIN coords}
        xs  == {p[1] : p \in pts}
        ys  == {p[2] : p \in pts}
    IN IF Cardinality(pts) >= 3 /\ Cardinality(ys) >= 2
       THEN {k \in Cells : MinOf(xs) <= k /\ k < MaxOf(xs)}
       ELSE {}

\* geometry.centroid: the mean of the cell centres k + 1/2, as num/den;
\* the centroid of an empty polygon is the empty point.
EmptyPoint == [empty |-> TRUE, num |-> 0, den |-> 1]
Centroid(cells) ==
    IF cells = {} THEN EmptyPoint
    ELSE [empty |-> FALSE,
          num |-> SumOf({2 * k + 1 : k \in cells}),
          den |-> 2 * Cardinality(cells)]

\* The cells whose closed square holds the point.
CellsAt(pt) == {k \in Cells : k * pt.den <= pt.num /\ pt.num <= (k + 1) * pt.den}

\* geometry.contains(point): the point lies in the interior of the shape.
Contains(cells, pt) == ~pt.empty /\ CellsAt(pt) \subseteq cells

\* a.intersects(b): the closed shapes share a point (touching counts).
Intersects(a, b) ==
    \E p \in a, q \in b : p - q <= 1 /\ q - p <= 1

\* a.intersection(b).area
IntersectionArea(a, b) == Cardinality(a \cap b)

(* ------------------- utils/spatial.py: determine_zone ------------------ *)

\* Optional[Polygon]
Poly(cells) == [kind |-> "poly", cells |-> cells]

\* _make_polygon: None for fewer than 3 points, else the (repaired) polygon.
MakePolygon(contour) ==
    IF Len(contour) < 3 THEN None ELSE Poly(PolygonCells(contour))

RECURSIVE UnionPolys(_, _, _)
UnionPolys(contours, i, polys) ==
    IF i > Len(contours) THEN polys
    ELSE LET p == MakePolygon(contours[i])
         IN UnionPolys(contours, i + 1,
                       IF p # None /\ p.cells # {} THEN polys \cup {p.cells}
                       ELSE polys)

\* _zone_to_polygon: the union of the zone's buildable, non-empty contours.
ZoneToPolygon(z) ==
    LET polys == UnionPolys(z.contours, 1, {})
    IN IF polys = {} THEN None ELSE Poly(UNION polys)

ZoneName(name) == [kind |-> "zone", name |-> name]

\* spatial.py:65  `if area > best_area`
BetterArea_orEqual(area, best_area) == area >= best_area
BetterArea(area, best_area) == area > best_area

\* spatial.py:63-64  `inter = zpoly.intersection(ppoly); area = inter.area ...`
OverlapArea(zcells, pcells) == IntersectionArea(zcells, pcells)

RECURSIVE ZoneLoop(_, _, _, _, _)
\* the `for z in zones` loop; best = [name, area]
ZoneLoop(zones, ppoly, centroid, i, best) ==
    IF i > Len(zones)
    THEN IF best.area > 0 THEN best.name ELSE None
    ELSE LET zpoly == ZoneToPolygon(zones[i])
         IN IF zpoly = None \/ zpoly.cells = {}
            THEN ZoneLoop(zones, ppoly, centroid, i + 1, best)
            ELSE IF Contains(zpoly.cells, centroid)
            THEN ZoneName(zones[i].name)
            ELSE LET area == OverlapArea(zpoly.cells, ppoly.cells)
                 IN ZoneLoop(zones, ppoly, centroid, i + 1,
                             IF BetterArea(area, best.area)
                             THEN [name |-> ZoneName(zones[i].name), area |-> area]
                             ELSE best)

determine_zone(parcel, zones) ==
    LET ppoly == MakePolygon(parcel.contour)
    IN IF ppoly = None \/ ppoly.cells = {} THEN None
       ELSE ZoneLoop(zones, ppoly, Centroid(ppoly.cells), 1,
                     [name |-> None, area |-> 0])

(* -------------- parsers/tab_parser.py: find_zone_for_parcel ------------ *)

\* `if zone_geom`: None and the empty geometry are falsy.
Truthy(g) == g.kind = "geom" /\ g.cells # {}

\* Polygon(parcel_coords) raises for a ring of one or two points.
PolygonRaises(coords) == Len(coords) < 3

ZoneInfo(zone) == [kind |-> "zone", name |-> zone.name]

RECURSIVE CentroidStep(_, _, _)
\* Step 1 (tab_parser.py:174-184): the index of the first zone containing
\* the centroid, 0 when there is none, -1 when a contains() raised first.
CentroidStep(zones, centroid, i) ==
    IF i > Len(zones) THEN 0
    ELSE LET g == zones[i].geometry
         IN IF ~Truthy(g) THEN CentroidStep(zones, centroid, i + 1)
            ELSE IF g.fault = "pred" THEN -1
            ELSE IF Contains(g.cells, centroid) THEN i
            ELSE CentroidStep(zones, centroid, i + 1)

\* tab_parser.py:199  `if area > max_area`
LargerArea(area, max_area) == area > max_area

\* tab_parser.py:196-197  `parcel_poly.intersection(zone_geom).area`
ParcelZoneArea_ofZone(pcells, zcells) == Cardinality(zcells)
ParcelZoneArea(pcells, zcells) == IntersectionArea(pcells, zcells)

RECURSIVE AreaStep(_, _, _, _)
\* Step 2 (tab_parser.py:187-204); best = [max_area, best_zone (index, 0: None)]
AreaStep(zones, pcells, i, best) ==
    IF i > Len(zones) THEN best
    ELSE LET g == zones[i].geometry
         IN IF ~Truthy(g) THEN AreaStep(zones, pcells, i + 1, best)
            ELSE IF g.fault = "overlay"
            THEN AreaStep(zones, pcells, i + 1, best)
            ELSE LET area == ParcelZoneArea(pcells, g.cells)
                 IN AreaStep(zones, pcells, i + 1,
                             IF LargerArea(area, best.max_area)
                             THEN [max_area |-> area, best_zone |-> i]
                             ELSE best)

find_zone_for_parcel(coords, zones) ==
    IF Len(coords) = 0 \/ Len(zones) = 0 THEN None
    ELSE IF PolygonRaises(coords) THEN None
    ELSE LET parcel_poly == PolygonCells(coords)
             centroid == Centroid(parcel_poly)
             hit == CentroidStep(zones, centroid, 1)
         IN IF hit = -1 THEN None
            ELSE IF hit > 0 THEN ZoneInfo(zones[hit])
            ELSE LET best == AreaStep(zones, parcel_poly, 1,
                                      [max_area |-> 0, best_zone |-> 0])
                 IN IF best.best_zone # 0 /\ best.max_area > 0
                    THEN ZoneInfo(zones[best.best_zone])
                    ELSE None

(* ------------------- parsers/tab_parser.py: matchers ------------------- *)

\* check_geometry_intersects: the intersects predicate; False when it raises.
check_geometry_intersects(parcel_geometry, layer_geometry) ==
    IF layer_geometry.fault = "pred" THEN FALSE
    ELSE Intersects(parcel_geometry, layer_geometry.cells)

\* The attribute payload copied from a matching record.
Payload(rec) == [name |-> rec.name]

List(items) == [kind |-> "list", items |-> items]

\* tab_parser.py:453  `found.append({...})`
AddRestriction_dedup(found, item) ==
    IF \E k \in DOMAIN found : found[k] = item THEN found ELSE Append(found, item)
AddRestriction(found, item) == Append(found, item)

RECURSIVE RestrictionLoop(_, _, _, _)
RestrictionLoop(restrictions, parcel_poly, i, found) ==
    IF i > Len(restrictions) THEN found
    ELSE LET restr_geom == restrictions[i].geometry
         IN IF ~Truthy(restr_geom)
            THEN RestrictionLoop(restrictions, parcel_poly, i + 1, found)
            ELSE RestrictionLoop(restrictions, parcel_poly, i + 1,
                    IF check_geometry_intersects(parcel_poly, restr_geom)
                    THEN AddRestriction(found, Payload(restrictions[i]))
                    ELSE found)

find_restrictions_for_parcel(coords, restrictions) ==
    IF Len(coords) = 0 \/ Len(restrictions) = 0 THEN List(<<>>)
    ELSE IF PolygonRaises(coords) THEN List(<<>>)
    ELSE List(RestrictionLoop(restrictions, PolygonCells(coords), 1, <<>>))

RECURSIVE ObjectLoop(_, _, _, _)
ObjectLoop(objects, parcel_poly, i, found) ==
    IF i > Len(objects) THEN found
    ELSE LET obj_geom == objects[i].geometry
         IN IF ~Truthy(obj_geom)
            THEN ObjectLoop(objects, parcel_poly, i + 1, found)
            ELSE ObjectLoop(objects, parcel_poly, i + 1,
                    IF check_geometry_intersects(parcel_poly, obj_geom)
                    THEN Append(found, Payload(objects[i]))
                    ELSE found)

find_objects_on_parcel(coords, objects) ==
    IF Len(coords) = 0 \/ Len(objects) = 0 THEN List(<<>>)
    ELSE IF PolygonRaises(coords) THEN List(<<>>)
    ELSE List(ObjectLoop(objects, PolygonCells(coords), 1, <<>>))

ProjectInfo(project) == [kind |-> "project", name |-> project.name]

RECURSIVE ProjectLoop_last(_, _, _, _)
\* the loop without its early return: the last intersecting project wins
ProjectLoop_last(projects, parcel_poly, i, tested) ==
    IF i > Len(projects) THEN [ret |-> None, tested |-> tested]
    ELSE LET proj_geom == projects[i].geometry
             rest == ProjectLoop_last(projects, parcel_poly, i + 1,
                        IF Truthy(proj_geom) THEN Append(tested, i) ELSE tested)
         IN IF rest.ret # None THEN rest
            ELSE IF Truthy(proj_geom)
                    /\ check_geometry_intersects(parcel_poly, proj_geom)
            THEN [ret |-> ProjectInfo(projects[i]), tested |-> rest.tested]
            ELSE rest

RECURSIVE ProjectLoop(_, _, _, _)
\* tab_parser.py:358-376; tested: the indices handed to the predicate
ProjectLoop(projects, parcel_poly, i, tested) ==
    IF i > Len(projects) THEN [ret |-> None, tested |-> tested]
    ELSE LET proj_geom == projects[i].geometry
         IN IF ~Truthy(proj_geom)
            THEN ProjectLoop(projects, parcel_poly, i + 1, tested)
            ELSE IF check_geometry_intersects(parcel_poly, proj_geom)
            THEN [ret |-> ProjectInfo(projects[i]), tested |-> Append(tested, i)]
            ELSE ProjectLoop(projects, parcel_poly, i + 1, Append(tested, i))

check_planning_project_intersection(coords, projects) ==
    IF Len(coords) = 0 \/ Len(projects) = 0 THEN [ret |-> None, tested |-> <<>>]
    ELSE IF PolygonRaises(coords) THEN [ret |-> None, tested |-> <<>>]
    ELSE ProjectLoop(projects, PolygonCells(coords), 1, <<>>)

(* ------------------------ the resolver's callers ----------------------- *)

RECURSIVE UnitContours(_)
\* one unit-square contour per cell, in ascending order
UnitContours(cells) ==
    IF cells = {} THEN <<>>
    ELSE LET k == MinOf(cells) IN <<Rect(k, k + 1)>> \o UnitContours(cells \ {k})

\* The ZoneShape (name, contours) describing the same zone to determine_zone:
\* no contour for a record without geometry, a contour that builds no
\* polygon for a faulty one (too short, or a ring that encloses nothing),
\* else the unit squares of its cells.
ZoneShapeOf(rec) ==
    [name |-> rec.name,
     contours |-> IF rec.geometry.kind = "none" THEN <<>>
                  ELSE IF rec.geometry.fault = "pred" THEN <<TooShort>>
                  ELSE IF rec.geometry.fault = "overlay" THEN <<Flat>>
                  ELSE UnitContours(rec.geometry.cells)]

ZoneShapes(zones) == [i \in DOMAIN zones |-> ZoneShapeOf(zones[i])]

Parcel(contour) == [contour |-> contour]

(* ------- parsers/egrn_parser.py, parsers/kpt_parser.py: containers ----- *)

\* A file name is a sequence of tokens; the words the code looks for
\* (an extension, a priority word, the proto_ prefix) are whole tokens.
Last(seq) == seq[Len(seq)]

\* str.lower(), token by token
Lower(tok) ==
    CASE tok = "DATA" -> "data"
      [] tok = ".XML" -> ".xml"
      [] tok = "EXTRACT_ABOUT_PROPERTY_" -> "extract_about_property_"
      [] tok = "LAND" -> "land"
      [] OTHER -> tok

\* n.endswith("/")
IsDirectory(name) == Last(name) = "/"
\* n.lower().endswith((".xml", ".xml.gz"))
IsXmlLike(name) == Lower(Last(name)) \in {".xml", ".xml.gz"}
\* name.lower().endswith(".xml.gz")
IsGzip(name) == Lower(Last(name)) = ".xml.gz"

\* _PRIOR_NAME_RE of each parser (re.I), searched in the name
EgrnPriorWords == {"land", "parcel", "record", "egrn"}
KptPriorWords == {"zone", "territor", "territorial", "zones_and_territories"}
PriorSearch(words, name) == \E k \in DOMAIN name : Lower(name[k]) \in words

\* _sanitize_xml_bytes: the bytes from the first '<' on; raises without one.
\* Contents: a well-formed document ("wf"), one behind a BOM ("bom+wf"),
\* markup that is not well-formed ("malformed"), bytes without '<' ("nolt"),
\* and for a .xml.gz member a stream gzip cannot decompress ("badgz").
Sanitize(raw) ==
    CASE raw \in {"wf", "bom+wf"} -> [kind |-> "bytes", xml |-> "wf"]
      [] raw = "malformed" -> [kind |-> "bytes", xml |-> "malformed"]
      [] OTHER -> Raised

\* _read_zip_member
ReadZipMember(member) ==
    IF IsGzip(member.name) /\ member.data = "badgz" THEN Raised
    ELSE Sanitize(member.data)

\* etree.fromstring succeeds
WellFormed(bytes) == bytes.xml = "wf"

RECURSIVE Filter(_, _, _)
\* [n for n in names if keep(n)], over member indices
Filter(idx, keep, k) ==
    IF k > Len(idx) THEN <<>>
    ELSE (IF idx[k] \in keep THEN <<idx[k]>> ELSE <<>>) \o Filter(idx, keep, k + 1)

RECURSIVE InsertBySize(_, _, _)
\* i goes behind every index of at least its file_size
InsertBySize(sorted, i, members) ==
    IF sorted = <<>> THEN <<i>>
    ELSE IF members[sorted[1]].file_size >= members[i].file_size
         THEN <<sorted[1]>> \o InsertBySize(Tail(sorted), i, members)
         ELSE <<i>> \o sorted

RECURSIVE SortedBySize(_, _, _)
\* sorted(xml_like, key=file_size, reverse=True): stable
SortedBySize(idx, members, k) ==
    IF k = 0 THEN <<>>
    ELSE InsertBySize(SortedBySize(idx, members, k - 1), idx[k], members)

RECURSIVE TryCandidates(_, _, _)
\* the `for name in candidates` loop: the first member that reads and parses
TryCandidates(members, candidates, k) ==
    IF k > Len(candidates) THEN Raised
    ELSE LET data == ReadZipMember(members[candidates[k]])
         IN IF data # Raised /\ WellFormed(data)
            THEN [kind |-> "bytes", xml |-> data.xml, member |-> candidates[k]]
            ELSE TryCandidates(members, candidates, k + 1)

\* _pick_xml_from_zip (egrn) and the ZIP branch of _ensure_xml_bytes (kpt),
\* which differ in the priority words only
PickXmlFromZip(members, words) ==
    LET idx == [k \in 1 .. Len(members) |-> k]
        all_names == Filter(idx, {k \in DOMAIN members : ~IsDirectory(members[k].name)}, 1)
        xml_like == Filter(all_names, {k \in DOMAIN members : IsXmlLike(members[k].name)}, 1)
        priority == Filter(xml_like, {k \in DOMAIN members : PriorSearch(words, members[k].name)}, 1)
        candidates == IF priority # <<>> THEN priority
                      ELSE SortedBySize(xml_like, members, Len(xml_like))
    IN IF xml_like = <<>> THEN Raised
       ELSE TryCandidates(members, candidates, 1)

\* _ensure_xml_bytes; member 0 is the buffer itself
EnsureXmlBytes(input, words) ==
    IF input.kind = "zip" THEN PickXmlFromZip(input.members, words)
    ELSE LET data == Sanitize(input.data)
         IN IF data = Raised THEN Raised
            ELSE [kind |-> "bytes", xml |-> data.xml, member |-> 0]

\* _root: the parsed tree, ValueError when the bytes are not well-formed
Root_lenient(xml_bytes) == [kind |-> "root", member |-> xml_bytes.member]
Root(xml_bytes) ==
    IF WellFormed(xml_bytes) THEN [kind |-> "root", member |-> xml_bytes.member]
    ELSE Raised

\* the record or zone list extracted from the document of `member`
Parsed(member) == [kind |-> "parsed", member |-> member]

ParseXml(input, words) ==
    LET xml_bytes == EnsureXmlBytes(input, words)
    IN IF xml_bytes = Raised THEN Raised
       ELSE LET root == Root(xml_bytes)
            IN IF root = Raised THEN Raised ELSE Parsed(root.member)

parse_egrn_xml(input) == ParseXml(input, EgrnPriorWords)
parse_kpt_xml(input) == ParseXml(input, KptPriorWords)

(* ----------- parsers/egrn_parser.py: field extraction helpers ---------- *)

\* Text is a sequence of characters; " " stands for any whitespace.
RECURSIVE LStrip(_)
LStrip(text) ==
    IF text # <<>> /\ text[1] = " " THEN LStrip(Tail(text)) ELSE text

RECURSIVE RStrip(_)
RStrip(text) ==
    IF text # <<>> /\ Last(text) = " "
    THEN RStrip(SubSeq(text, 1, Len(text) - 1)) ELSE text

\* str.strip()
Strip(text) == RStrip(LStrip(text))

\* root.xpath(xp): the matches of the path in document order.  A document
\* gives, for every path, the kind of node the path selects (elements, or
\* strings for a path ending in text() or an attribute) and the text of
\* each match.
Xpath(root, xp) == root[xp].texts

\* _text(node): "".join(node.itertext()).strip()
Text(node) == Strip(node)

\* the value _first_text reads from a non-empty match list: el[0] only
FirstMatchValue_unstripped(root, xp) == Xpath(root, xp)[1]
FirstMatchValue(root, xp) ==
    LET el == Xpath(root, xp)
    IN IF root[xp].kind = "element" THEN Text(el[1]) ELSE Strip(el[1])

RECURSIVE FirstTextFrom(_, _, _)
\* the `for xp in xpaths` loop from candidate k on
FirstTextFrom(root, xps, k) ==
    IF k > Len(xps) THEN None
    ELSE IF Xpath(root, xps[k]) # <<>> /\ FirstMatchValue(root, xps[k]) # <<>>
         THEN [kind |-> "text", val |-> FirstMatchValue(root, xps[k])]
         ELSE FirstTextFrom(root, xps, k + 1)

\* _first_text (the same code in egrn_parser.py and kpt_parser.py)
first_text(root, xps) == FirstTextFrom(root, xps, 1)

(* -------------- parsers/egrn_parser.py: _extract_is_land --------------- *)

\* A tree is its root's tag (namespace and local name, as token sequences)
\* and the local names of the elements below the root.

\* root.tag: "{namespace}local", or "local" without a namespace
Tag(root) ==
    (IF root.ns # <<>> THEN <<"{">> \o root.ns \o <<"}">> ELSE <<>>) \o root.local

\* str.lower() of a token sequence
LowerAll(tokens) == [k \in DOMAIN tokens |-> Lower(tokens[k])]

\* str.endswith
EndsWith(tokens, suffix) ==
    /\ Len(tokens) >= Len(suffix)
    /\ SubSeq(tokens, Len(tokens) - Len(suffix) + 1, Len(tokens)) = suffix

\* the local names of //*: every element of the document, the root included
AllElements_belowRoot(root) == root.elems
AllElements(root) == {root.local} \cup root.elems

LandContainers == {<<"land_record">>, <<"parcel">>, <<"LandRecord">>}

extract_is_land(root) ==
    IF EndsWith(LowerAll(Tag(root)), <<"extract_about_property_", "land">>)
    THEN TRUE
    ELSE AllElements(root) \cap LandContainers # {}

(* ----------- parsers/egrn_parser.py: coordinates of the parcel --------- *)

\* An ordinate element: the text() matches of its x, y and ord_nmb children
\* (any letter case) and its attributes (None when the attribute is absent).
OrdinateChildren(o) == [p \in {"x", "y", "ord_nmb"} |-> [kind |-> "string", texts |-> o.children[p]]]

\* o.get(name)
Get(o, name) == o.attrs[name]

\* (o.get(a) or o.get(b) or "").strip()
AttrText(o, a, b) ==
    LET va == Get(o, a)
        vb == Get(o, b)
    IN Strip(IF va # None /\ va.text # <<>> THEN va.text
             ELSE IF vb # None /\ vb.text # <<>> THEN vb.text
             ELSE <<>>)

\* `x = _first_text(o, [...])` followed by `if not x: x = attribute`
ChildOrAttr(o, child, a, b) ==
    LET v == first_text(OrdinateChildren(o), <<child>>)
    IN IF v # None THEN v.val ELSE AttrText(o, a, b)

Coord(num, x, y) == [num |-> num, x |-> x, y |-> y]

\* `num`: the ord_nmb child, else the Num/num attribute, else ""
NumOf(o) == ChildOrAttr(o, "ord_nmb", "Num", "num")

\* an ordinate with none of x, y, num gives no Coord
KeepsOrdinate(x, y, num) == x # <<>> \/ y # <<>> \/ num # <<>>

RECURSIVE CoordsFrom(_, _)
\* _coords_from_ordinates, from node k on
CoordsFrom(nodes, k) ==
    IF k > Len(nodes) THEN <<>>
    ELSE LET o == nodes[k]
             x == ChildOrAttr(o, "x", "X", "x")
             y == ChildOrAttr(o, "y", "Y", "y")
             num == NumOf(o)
         IN (IF KeepsOrdinate(x, y, num) THEN <<Coord(num, x, y)>> ELSE <<>>)
            \o CoordsFrom(nodes, k + 1)

coords_from_ordinates(nodes) == CoordsFrom(nodes, 1)

RECURSIVE OldCoordsFrom(_, _)
\* the loop over ords_old: attributes only
OldCoordsFrom(nodes, k) ==
    IF k > Len(nodes) THEN <<>>
    ELSE LET o == nodes[k]
             num == AttrText(o, "Num", "num")
             x == AttrText(o, "X", "x")
             y == AttrText(o, "Y", "y")
         IN (IF KeepsOrdinate(x, y, num) THEN <<Coord(num, x, y)>> ELSE <<>>)
            \o OldCoordsFrom(nodes, k + 1)

RECURSIVE Concat(_)
\* the nodes of several containers in document order
Concat(seqs) == IF seqs = <<>> THEN <<>> ELSE Head(seqs) \o Concat(Tail(seqs))

\* the three ordinate collections of a document, as the xpaths select them
OrdsMain(root) == Concat(root.contours_location)
OrdsParts(root) == root.object_parts
OrdsOld(root) == root.EntitySpatial

\* where _extract_coords stops: 1 main boundary, 2 object parts, 3 old format
CoordsSource(root) ==
    IF coords_from_ordinates(OrdsMain(root)) # <<>> THEN 1
    ELSE IF coords_from_ordinates(OrdsParts(root)) # <<>> THEN 2
    ELSE 3

extract_coords_mainOnly(root) == coords_from_ordinates(OrdsMain(root))
extract_coords(root) ==
    CASE CoordsSource(root) = 1 -> coords_from_ordinates(OrdsMain(root))
      [] CoordsSource(root) = 2 -> coords_from_ordinates(OrdsParts(root))
      [] OTHER -> OldCoordsFrom(OrdsOld(root), 1)

(* ------------- parsers/egrn_parser.py: field extractors ---------------- *)

\* the text() matches of each path of a document
FieldRoot(root) == [p \in DOMAIN root.fields |-> [kind |-> "string", texts |-> root.fields[p]]]

RECURSIVE CollectFrom(_, _)
\* the inner loop of _collect_texts: the non-empty stripped matches
CollectFrom(texts, k) ==
    IF k > Len(texts) THEN <<>>
    ELSE (IF Strip(texts[k]) # <<>> THEN <<Strip(texts[k])>> ELSE <<>>)
         \o CollectFrom(texts, k + 1)

RECURSIVE CollectTexts(_, _, _)
\* _collect_texts
CollectTexts(root, xps, k) ==
    IF k > Len(xps) THEN <<>>
    ELSE CollectFrom(Xpath(root, xps[k]), 1) \o CollectTexts(root, xps, k + 1)

collect_texts(root, xps) == CollectTexts(root, xps, 1)

extract_cadnum(root) == first_text(FieldRoot(root), <<"cad_number", "cadnum">>)
extract_address(root) == first_text(FieldRoot(root), <<"readable_address">>)
extract_region(root) == first_text(FieldRoot(root), <<"region">>)

Digits == {"0", "1", "2", "3", "4", "5", "6", "7", "8", "9"}

\* re.sub(r"[^\d,\.]", "", t).replace(",", ".")
AreaChars(t) ==
    LET kept == SelectSeq(t, LAMBDA c : c \in Digits \cup {",", "."})
    IN [k \in DOMAIN kept |-> IF kept[k] = "," THEN "." ELSE kept[k]]

RECURSIVE DropZeros(_)
\* the text without its trailing zeros
DropZeros(t) ==
    IF t # <<>> /\ Last(t) = "0" THEN DropZeros(SubSeq(t, 1, Len(t) - 1)) ELSE t

\* re.sub(r"\.0+$", "", s)
DropZeroFraction(t) ==
    LET z == DropZeros(t)
    IN IF Len(z) < Len(t) /\ z # <<>> /\ Last(z) = "."
       THEN SubSeq(z, 1, Len(z) - 1) ELSE t

RECURSIVE AreaFrom(_, _)
AreaFrom(texts, k) ==
    IF k > Len(texts) THEN None
    ELSE IF AreaChars(texts[k]) # <<>>
         THEN [kind |-> "text", val |-> DropZeroFraction(AreaChars(texts[k]))]
         ELSE AreaFrom(texts, k + 1)

extract_area(root) == AreaFrom(collect_texts(FieldRoot(root), <<"area_value">>), 1)

RECURSIVE SplitColon(_)
\* the runs of characters between the colons of a text
SplitColon(t) ==
    IF \A k \in DOMAIN t : t[k] # ":" THEN <<t>>
    ELSE LET c == CHOOSE k \in DOMAIN t : t[k] = ":" /\ \A j \in 1 .. k - 1 : t[j] # ":"
         IN <<SubSeq(t, 1, c - 1)>> \o SplitColon(SubSeq(t, c + 1, Len(t)))

AllDigits(t) == \A k \in DOMAIN t : t[k] \in Digits

\* _CADNUM_PAT.fullmatch(cad): \d{2}:\d{2}:\d{6,}:\d+
CadnumFullmatch(cad) ==
    LET g == SplitColon(cad)
    IN /\ Len(g) = 4
       /\ \A k \in 1 .. 4 : AllDigits(g[k])
       /\ Len(g[1]) = 2 /\ Len(g[2]) = 2 /\ Len(g[3]) >= 6 /\ Len(g[4]) >= 1

RECURSIVE CapitalLoop(_, _, _, _)
\* the `for cad in objs` loop of _extract_capital_objects
CapitalLoop(objs, own_cad, k, out) ==
    IF k > Len(objs) THEN out
    ELSE LET cad == Strip(objs[k])
             skip == \/ cad = <<>> \/ ~CadnumFullmatch(cad)
                     \/ (own_cad # None /\ own_cad.val # <<>> /\ cad = own_cad.val)
                     \/ \E j \in DOMAIN out : out[j] = cad
         IN CapitalLoop(objs, own_cad, k + 1, IF skip THEN out ELSE Append(out, cad))

extract_capital_objects_unfiltered(root, own_cad) ==
    collect_texts(FieldRoot(root), <<"included_objects">>)
extract_capital_objects(root, own_cad) ==
    CapitalLoop(collect_texts(FieldRoot(root), <<"included_objects">>), own_cad, 1, <<>>)

\* parse_egrn_xml after _root: the EGRNData built from the parsed document
parse_egrn_document(root, land_tree) ==
    LET cadnum == extract_cadnum(root)
        coords == extract_coords(root)
    IN [kind |-> "EGRNData",
        cadnum |-> cadnum,
        address |-> extract_address(root),
        area |-> extract_area(root),
        region |-> extract_region(root),
        coordinates |-> coords,
        is_land |-> extract_is_land(land_tree),
        has_coords |-> coords # <<>>,
        capital_objects |-> extract_capital_objects(root, cadnum)]

(* ----------------- parsers/kpt_parser.py: zone geometry ---------------- *)

RECURSIVE DropLeadingZeros(_)
DropLeadingZeros(t) ==
    IF Len(t) > 1 /\ t[1] = "0" THEN DropLeadingZeros(Tail(t)) ELSE t

\* s.strip().replace(" ", "").replace(",", ".")
FloatText(s) ==
    LET kept == SelectSeq(Strip(s), LAMBDA c : c # " ")
    IN [k \in DOMAIN kept |-> IF kept[k] = "," THEN "." ELSE kept[k]]

\* float(t) succeeds: digits with at most one decimal point
IsFloat(t) ==
    /\ \A k \in DOMAIN t : t[k] \in Digits \cup {"."}
    /\ \E k \in DOMAIN t : t[k] \in Digits
    /\ Cardinality({k \in DOMAIN t : t[k] = "."}) <= 1

\* the number a float text denotes: integer and fraction digits
FloatValue(t) ==
    LET g == SplitColon([k \in DOMAIN t |-> IF t[k] = "." THEN ":" ELSE t[k]])
        whole == IF g[1] = <<>> THEN <<"0">> ELSE DropLeadingZeros(g[1])
    IN [whole |-> whole, frac |-> IF Len(g) > 1 THEN DropZeros(g[2]) ELSE <<>>]

\* _to_float: None for an empty or unparseable text
to_float(s) ==
    LET t == FloatText(s)
    IN IF t = <<>> \/ ~IsFloat(t) THEN None
       ELSE [kind |-> "float", val |-> FloatValue(t)]

\* `x_txt = _first_text(o, ...)`, `if x_txt is None: x_txt = o.get("X") or o.get("x")`,
\* then `x_txt or ""`
KptChildOrAttr(o, child, a, b) ==
    LET v == first_text(OrdinateChildren(o), <<child>>)
        va == Get(o, a)
        vb == Get(o, b)
    IN IF v # None THEN v.val
       ELSE IF va # None /\ va.text # <<>> THEN va.text
       ELSE IF vb # None THEN vb.text
       ELSE <<>>

RECURSIVE PointsFrom(_, _)
\* the first loop of _ordinates_to_polygon: the ordinates with both floats
PointsFrom(ords, k) ==
    IF k > Len(ords) THEN <<>>
    ELSE LET x == to_float(KptChildOrAttr(ords[k], "x", "X", "x"))
             y == to_float(KptChildOrAttr(ords[k], "y", "Y", "y"))
         IN (IF x = None \/ y = None THEN <<>> ELSE << <<x.val, y.val>> >>)
            \o PointsFrom(ords, k + 1)

RECURSIVE Cleaned(_, _)
\* the second loop: a point equal to the one before it is dropped
Cleaned(pts, k) ==
    IF k > Len(pts) THEN <<>>
    ELSE (IF k = 1 \/ pts[k] # pts[k - 1] THEN <<pts[k]>> ELSE <<>>)
         \o Cleaned(pts, k + 1)

\* closing: the first point is appended unless the last one equals it
Closed(cleaned) ==
    IF cleaned # <<>> /\ cleaned[1] # Last(cleaned)
    THEN Append(cleaned, cleaned[1]) ELSE cleaned

ordinates_to_polygon(ords) == Closed(Cleaned(PointsFrom(ords, 1), 1))

\* kpt_parser.py:166  `if len(poly) >= 4`
KeepsPolygon(poly) == Len(poly) >= 4

RECURSIVE PolygonsUnder(_, _)
\* _extract_polygons_under: node is the list of its spatial elements
PolygonsUnder(node, k) ==
    IF k > Len(node) THEN <<>>
    ELSE LET poly == ordinates_to_polygon(node[k])
         IN (IF KeepsPolygon(poly) THEN <<poly>> ELSE <<>>) \o PolygonsUnder(node, k + 1)

extract_polygons_under(node) == PolygonsUnder(node, 1)

(* ----------------- parsers/kpt_parser.py: zone records ----------------- *)

\* the text() matches of the paths below a record
RecordRoot(rec) == [p \in DOMAIN rec.texts |-> [kind |-> "string", texts |-> rec.texts[p]]]

\* `_first_text(...) or ""`
OrEmpty(v) == IF v = None THEN <<>> ELSE v.val

Zone(name, code, contours) == [name |-> name, code |-> code, contours |-> contours]

RECURSIVE ZonesFrom(_, _, _)
\* the record loop of _parse_from_zones_and_territories and of
\* _parse_from_territorial_zones (the same code on different paths); every
\* zone is listed with the shape and the index of its record
ZonesFrom(recs, shape, k) ==
    IF k > Len(recs) THEN <<>>
    ELSE LET name == OrEmpty(first_text(RecordRoot(recs[k]), <<"zone_name", "name">>))
             code == first_text(RecordRoot(recs[k]), <<"zone_code", "code">>)
             contours == extract_polygons_under(recs[k].contours_location)
         IN (IF contours # <<>>
             THEN << [zone |-> Zone(name, code, contours), shape |-> shape, index |-> k] >>
             ELSE <<>>)
            \o ZonesFrom(recs, shape, k + 1)

parse_from_zones_and_territories(root) ==
    ZonesFrom(root.zones_and_territories_records, "zones_and_territories_records", 1)
parse_from_territorial_zones(root) ==
    ZonesFrom(root.territorial_zones, "territorial_zones", 1)

\* str.upper(), character by character
Upper(c) == CASE c = "r" -> "R" [] c = "j" -> "J" [] OTHER -> c

\* `code = (z.code or "").strip()`, `code.upper() if code else None`
NormCode(code) ==
    LET c == Strip(OrEmpty(code))
    IN IF c = <<>> THEN None ELSE [kind |-> "text", val |-> [k \in DOMAIN c |-> Upper(c[k])]]

\* `zones = primary; if not zones: zones = secondary`
SelectZones_both(primary, secondary) == primary \o secondary
SelectZones(primary, secondary) == IF primary # <<>> THEN primary ELSE secondary

\* parse_kpt_xml after _root
parse_kpt_document(root) ==
    LET zones == SelectZones(parse_from_zones_and_territories(root),
                             parse_from_territorial_zones(root))
    IN [k \in DOMAIN zones |->
           [zones[k] EXCEPT !.zone = Zone(Strip(zones[k].zone.name),
                                          NormCode(zones[k].zone.code),
                                          zones[k].zone.contours)]]

(* ------------- core invocations of concurrent workflows ---------------- *)

\* The frame of one invocation: its arguments and its local variables.
\* pc: "start" before the first statement, "loop" inside the for loop,
\* "done" after the return.
Frame(fn, parcel, records, bytes) ==
    [fn |-> fn, parcel |-> parcel, records |-> records, bytes |-> bytes,
     pc |-> "start", i |-> 0,
     acc |-> [name |-> None, area |-> 0, items |-> <<>>], ret |-> None]

\* Where the loop variables of workflow w's invocation live: each call has
\* a frame of its own (the functions assign to local names only; the
\* modules hold no mutable global).
FrameOf_shared(w) == 1
FrameOf(w) == w

\* What workflow w's invocation sees: its arguments, its position and its
\* loop variables.
View(fs, w) ==
    [fs[w] EXCEPT !.i = fs[FrameOf(w)].i, !.acc = fs[FrameOf(w)].acc]

\* The frames after workflow w's invocation moved to f.
Store(fs, w, f) ==
    LET own == [fs EXCEPT ![w] = [f EXCEPT !.i = fs[w].i, !.acc = fs[w].acc]]
    IN [own EXCEPT ![FrameOf(w)].i = f.i, ![FrameOf(w)].acc = f.acc]

Return(f, value) == [f EXCEPT !.pc = "done", !.ret = value]

\* determine_zone, one statement block at a time (spatial.py:38-69)
DetermineZoneStep(f) ==
    LET ppoly == MakePolygon(f.parcel)
    IN IF f.pc = "start"
       THEN IF ppoly = None \/ ppoly.cells = {} THEN Return(f, None)
            ELSE [f EXCEPT !.pc = "loop", !.i = 1,
                           !.acc.name = None, !.acc.area = 0]
       ELSE IF f.i > Len(f.records)
       THEN Return(f, IF f.acc.area > 0 THEN f.acc.name ELSE None)
       ELSE LET z == ZoneShapeOf(f.records[f.i])
                zpoly == ZoneToPolygon(z)
            IN IF zpoly = None \/ zpoly.cells = {}
               THEN [f EXCEPT !.i = f.i + 1]
               ELSE IF Contains(zpoly.cells, Centroid(ppoly.cells))
               THEN Return(f, ZoneName(z.name))
               ELSE LET area == OverlapArea(zpoly.cells, ppoly.cells)
                    IN [f EXCEPT !.i = f.i + 1,
                                 !.acc = IF BetterArea(area, f.acc.area)
                                         THEN [f.acc EXCEPT
                                                 !.name = ZoneName(z.name),
                                                 !.area = area]
                                         ELSE f.acc]

\* find_restrictions_for_parcel, one statement block at a time
\* (tab_parser.py:423-472)
FindRestrictionsStep(f) ==
    IF f.pc = "start"
    THEN IF Len(f.parcel) = 0 \/ Len(f.records) = 0 \/ PolygonRaises(f.parcel)
         THEN Return(f, List(<<>>))
         ELSE [f EXCEPT !.pc = "loop", !.i = 1, !.acc.items = <<>>]
    ELSE IF f.i > Len(f.records) THEN Return(f, List(f.acc.items))
    ELSE LET restr_geom == f.records[f.i].geometry
         IN IF Truthy(restr_geom)
               /\ check_geometry_intersects(PolygonCells(f.parcel), restr_geom)
            THEN [f EXCEPT !.i = f.i + 1,
                           !.acc.items = AddRestriction(f.acc.items,
                                                        Payload(f.records[f.i]))]
            ELSE [f EXCEPT !.i = f.i + 1]

\* parse_egrn_xml (egrn_parser.py:294-323): from the bytes to the record
\* through local names only
ParseEgrnStep(f) == Return(f, parse_egrn_xml(f.bytes))

StepOf(f) ==
    IF f.fn = "determine_zone" THEN DetermineZoneStep(f)
    ELSE IF f.fn = "find_restrictions_for_parcel" THEN FindRestrictionsStep(f)
    ELSE ParseEgrnStep(f)

\* The result of the invocation when it runs alone on its arguments.
Alone(f) ==
    IF f.fn = "determine_zone"
    THEN determine_zone(Parcel(f.parcel), ZoneShapes(f.records))
    ELSE IF f.fn = "find_restrictions_for_parcel"
    THEN find_restrictions_for_parcel(f.parcel, f.records)
    ELSE parse_egrn_xml(f.bytes)

(* ------- generator/tu_requests_builder.py: the TU journal -------------- *)

\* TEMPLATE_CONFIG: three templates, in this order
NumTemplates == 3

\* A cell of the outgoing-number column: empty, an integer, a text that
\* int(str(val).strip()) reads (" 7 "), a value it rejects ("б/н", 7.5).
NoValue == [kind |-> "none", n |-> 0]
Num(n) == [kind |-> "int", n |-> n]
Str(n) == [kind |-> "str", n |-> n]
Junk == [kind |-> "junk", n |-> 0]

\* A journal row: its outgoing number and the application it was written
\* for (0: a row that was in the journal before).
Row(out_num, incoming) == [out_num |-> out_num, incoming |-> incoming]

\* tu_requests_builder.py:174  `if n > max_num`
LargerNum_always(n, max_num) == TRUE
LargerNum(n, max_num) == n > max_num

RECURSIVE MaxNumLoop(_, _, _)
\* tu_requests_builder.py:165-175: the scan of the rows below the header
MaxNumLoop(rows, i, max_num) ==
    IF i > Len(rows) THEN max_num
    ELSE LET val == rows[i].out_num
         IN IF val.kind = "none" \/ val.kind = "junk"
            THEN MaxNumLoop(rows, i + 1, max_num)
            ELSE MaxNumLoop(rows, i + 1,
                            IF LargerNum(val.n, max_num) THEN val.n ELSE max_num)

RECURSIVE TemplateLoop(_, _, _, _, _, _)
\* tu_requests_builder.py:184-206: for every template that exists, the next
\* number, a row in the workbook, then the document; fail_at is the template
\* whose rendering raises (0: none).
TemplateLoop(templates, k, current_num, wb, docs, req) ==
    IF k > NumTemplates THEN [wb |-> wb, docs |-> docs, raised |-> FALSE]
    ELSE IF k \notin templates
    THEN TemplateLoop(templates, k + 1, current_num, wb, docs, req)
    ELSE LET num == current_num + 1
             rows == Append(wb, Row(Num(num), req.incoming))
         IN IF req.fail_at = k
            THEN [wb |-> rows, docs |-> docs, raised |-> TRUE]
            ELSE TemplateLoop(templates, k + 1, num, rows,
                              Append(docs, [template |-> k, out_num |-> num]),
                              req)

\* the body of `with lock:` up to the save, on the workbook that was read
BuildDocs(files, req) ==
    TemplateLoop(files.templates, 1, MaxNumLoop(files.rows, 1, 0),
                 files.rows, <<>>, req)

\* FileLock.acquire: the lock file is taken only when nobody holds it
LockFree_ignored(holder) == TRUE
LockFree(holder) == holder = None

\* One call of build_tu_docs_with_outgoing: where it is, the rows it read,
\* its workbook, the documents it built and what it returned.
Worker(pc, read, wb, docs, ret) ==
    [pc |-> pc, read |-> read, wb |-> wb, docs |-> docs, ret |-> ret,
     saves |-> 0]

NotCalled == Worker("idle", <<>>, <<>>, <<>>, None)
Raise(w) == [w EXCEPT !.pc = "raised", !.ret = Raised, !.docs = <<>>]

(* ----------------------- bot.py: the EGRN + KPT chat ------------------- *)

\* The keys of the ZONES directory, in its order; a code is a sequence of
\* characters ("J1" and "R1" stand for two of the 27 keys).
ZONES == << <<"J", "1">>, <<"R", "1">> >>
ZoneKeys == {ZONES[k] : k \in DOMAIN ZONES}

\* `code in s`
IsSubstring(code, s) ==
    \E k \in 0 .. Len(s) - Len(code) : SubSeq(s, k + 1, k + Len(code)) = code

RECURSIVE DetectLoop(_, _)
DetectLoop(s, k) ==
    IF k > Len(ZONES) THEN None
    ELSE IF IsSubstring(ZONES[k], s) THEN [kind |-> "text", val |-> ZONES[k]]
    ELSE DetectLoop(s, k + 1)

\* _try_detect_code: the first key found in the upper-cased zone name
try_detect_code(detected_zone_name) ==
    IF detected_zone_name = None \/ detected_zone_name.val = <<>> THEN None
    ELSE DetectLoop([k \in DOMAIN detected_zone_name.val |->
                        Upper(detected_zone_name.val[k])], 1)

\* the callback data of the keyboards the handlers send
decision_keyboard_two == {"act_prepare", "act_manual"}
manual_only_keyboard == {"act_manual"}
start_over_keyboard == {"act_restart"}
zones_keyboard == {"zone:"}

\* state.clear(): no state, no data
Cleared(c) == [c EXCEPT !.state = "None", !.egrn = FALSE, !.detected_zone_code = None]

\* `data.get("detected_zone_code") or None`
StoredCode(c) ==
    IF c.detected_zone_code = None \/ c.detected_zone_code.val = <<>> THEN None
    ELSE c.detected_zone_code

\* cb_prepare's zone_code: the stored code, whatever it is
PreparedCode(c) == StoredCode(c)

\* _generate_and_send_gpzu: the document sent to the chat when the build
\* and the upload succeed, and the start-over keyboard either way
generate_and_send_gpzu(c, zone_code, manual, sent) ==
    [c EXCEPT !.documents =
                  IF sent
                  THEN Append(@, [zone_code |-> zone_code, manual |-> manual,
                                  detected |-> StoredCode(c)])
                  ELSE @,
              !.offered = @ \cup start_over_keyboard]

(* ------------- utils/spatial_analysis.py: the analysis ----------------- *)

\* float(x_str.replace(',', '.').replace(' ', '')): the number, or Raised
\* (AttributeError for None, ValueError for a text that is no number)
CoordFloat(x_str) ==
    IF x_str = None THEN Raised
    ELSE LET t == FloatText(x_str.val)
         IN IF t = <<>> \/ ~IsFloat(t) THEN Raised
            ELSE [kind |-> "float", val |-> FloatValue(t)]

RECURSIVE ParcelCoordsLoop(_, _, _)
\* _get_parcel_coords: the pairs that parse; a pair that does not is skipped
ParcelCoordsLoop(coords_list, i, acc) ==
    IF i > Len(coords_list) THEN acc
    ELSE LET x == CoordFloat(coords_list[i].x)
             y == CoordFloat(coords_list[i].y)
         IN ParcelCoordsLoop(coords_list, i + 1,
                             IF x = Raised \/ y = Raised THEN acc
                             ELSE Append(acc, <<x.val, y.val>>))

get_parcel_coords(gp) == ParcelCoordsLoop(gp.coordinates, 1, <<>>)

\* spatial_analysis.py:39  `if not coords`
NoCoords_never(coords) == FALSE
NoCoords(coords) == coords = <<>>

\* a parsed number as a coordinate of the strip
OnStrip(v) ==
    CASE v.whole = <<"0">> -> 0 [] v.whole = <<"1">> -> 1
      [] v.whole = <<"2">> -> 2 [] OTHER -> 3

\* the contour handed to the layer functions
Contour(coords) ==
    [k \in DOMAIN coords |-> <<OnStrip(coords[k][1]), OnStrip(coords[k][2])>>]

\* an entry of gp_data.warnings / gp_data.errors
Msg(stage, what) == [stage |-> stage, what |-> what]
add_warning(gp, m) == [gp EXCEPT !.warnings = Append(@, m)]
add_error(gp, m) == [gp EXCEPT !.errors = Append(@, m)]

\* A layer file: absent, one the parser fails on, or its records.
Missing == [kind |-> "missing", records |-> <<>>]
Broken == [kind |-> "broken", records |-> <<>>]
Records(recs) == [kind |-> "records", records |-> recs]

\* spatial_analysis.py:86-115
analyze_zone(gp, coords, file) ==
    IF file.kind = "missing" THEN add_warning(gp, Msg("zone", "missing"))
    ELSE IF file.kind = "broken" THEN add_error(gp, Msg("zone", "exception"))
    ELSE IF file.records = <<>> THEN add_warning(gp, Msg("zone", "empty"))
    ELSE LET zone_info == find_zone_for_parcel(coords, file.records)
         IN IF zone_info # None THEN [gp EXCEPT !.zone = zone_info]
            ELSE add_warning(gp, Msg("zone", "undetermined"))

\* spatial_analysis.py:118-151
analyze_capital_objects(gp, coords, file) ==
    IF file.kind = "missing"
    THEN add_warning(gp, Msg("capital_objects", "missing"))
    ELSE IF file.kind = "broken"
    THEN add_error(gp, Msg("capital_objects", "exception"))
    ELSE IF file.records = <<>> THEN gp
    ELSE [gp EXCEPT !.capital_objects =
                        @ \o find_objects_on_parcel(coords, file.records).items]

\* spatial_analysis.py:154-192
analyze_planning_projects(gp, coords, file) ==
    IF file.kind = "missing"
    THEN add_warning(gp, Msg("planning_projects", "missing"))
    ELSE IF file.kind = "broken"
    THEN add_error(gp, Msg("planning_projects", "exception"))
    ELSE IF file.records = <<>> THEN gp
    ELSE LET project_info ==
                 check_planning_project_intersection(coords, file.records).ret
         IN [gp EXCEPT !.planning_project =
                           [exists |-> project_info # None,
                            project |-> project_info]]

\* spatial_analysis.py:195-227
analyze_zouit(gp, coords, file) ==
    IF file.kind = "missing" THEN gp
    ELSE IF file.kind = "broken" THEN add_warning(gp, Msg("zouit", "exception"))
    ELSE IF file.records = <<>> THEN gp
    ELSE [gp EXCEPT !.zouit =
                        @ \o find_restrictions_for_parcel(coords, file.records).items]

\* the stages, in the order perform_spatial_analysis calls them
StageOrder == <<"zone", "capital_objects", "planning_projects", "zouit">>

Analyze(stage, gp, coords, files) ==
    CASE stage = "zone" -> analyze_zone(gp, coords, files.zone)
      [] stage = "capital_objects" ->
             analyze_capital_objects(gp, coords, files.capital_objects)
      [] stage = "planning_projects" ->
             analyze_planning_projects(gp, coords, files.planning_projects)
      [] stage = "zouit" -> analyze_zouit(gp, coords, files.zouit)

RECURSIVE RunStages_untilError(_, _, _, _, _)
\* the stages as if an error recorded by one ended the analysis
RunStages_untilError(gp, coords, files, k, ran) ==
    IF k > Len(StageOrder) \/ Len(gp.errors) > 0 THEN [gp |-> gp, stages |-> ran]
    ELSE RunStages_untilError(Analyze(StageOrder[k], gp, coords, files), coords,
                              files, k + 1, Append(ran, StageOrder[k]))

RECURSIVE RunStages(_, _, _, _, _)
\* spatial_analysis.py:44-57: each stage on what the stage before left
RunStages(gp, coords, files, k, ran) ==
    IF k > Len(StageOrder) THEN [gp |-> gp, stages |-> ran]
    ELSE RunStages(Analyze(StageOrder[k], gp, coords, files), coords, files,
                   k + 1, Append(ran, StageOrder[k]))

\* perform_spatial_analysis: the GPData it returns and the stages it ran
perform_spatial_analysis(gp, files) ==
    LET coords == get_parcel_coords(gp)
    IN IF NoCoords(coords)
       THEN [gp |-> add_error(gp, Msg("coords", "missing")), stages |-> <<>>]
       ELSE LET done == RunStages(gp, Contour(coords), files, 1, <<>>)
            IN [gp |-> [done.gp EXCEPT !.analysis_completed = TRUE],
                stages |-> done.stages]

(* ---------------- core/utils.py: download_with_retries ----------------- *)

\* what bot.download_file / stream.read() can do on one attempt: give the
\* bytes, or raise one of these
Exceptions == {"TimeoutError", "ClientError", "OSError"}
Data(attempt) == [kind |-> "bytes", attempt |-> attempt]
Failure(ex) == [kind |-> "raise", ex |-> ex]

\* `for attempt in range(1, retries + 1)` is exhausted
LoopEnds_never(attempt, retries) == FALSE
LoopEnds(attempt, retries) == attempt > retries

\* `raise last_exc or RuntimeError("download failed")`
LastOr(last_exc) ==
    IF last_exc = None THEN Failure("RuntimeError") ELSE last_exc

\* One call: retries, the attempt the loop is at, last_exc, the outcomes of
\* the attempts made, and how the call ended.
Download(retries) ==
    [retries |-> retries, attempt |-> 1, last_exc |-> None, tries |-> <<>>,
     pc |-> "loop", ret |-> None]

(* ------------------------------ inputs --------------------------------- *)

ZoneGeometries ==
    {NoGeom} \cup {Geom(c, f) : c \in (SUBSET Cells) \ {{}}, f \in Faults}

\* zone layers: the k-th zone is named ZoneNames[k]
ZoneLayers ==
    UNION {{[i \in 1 .. k |-> [name |-> ZoneNames[i], geometry |-> g[i]]]
              : g \in [1 .. k -> ZoneGeometries]} : k \in 0 .. MaxRecords}

RecordGeometries ==
    {NoGeom} \cup {Geom(c, f) : c \in (SUBSET Cells) \ {{}}, f \in {"ok", "pred"}}

\* restriction / object / project layers: names repeat
RecordLayers ==
    SeqsUpTo([name : Names, geometry : RecordGeometries], MaxRecords)

MemberNames ==
    { <<"data", ".xml">>, <<"proto_", "data", ".xml">>,
      <<"land", ".xml">>, <<"proto_", "zone", ".xml.gz">>,
      <<"DATA", ".XML">>, <<"data", ".xml.gz">>,
      <<"readme", ".txt">>, <<"docs", "/">> }
FileSizes == {1, 2}
Contents == {"wf", "bom+wf", "malformed", "nolt", "badgz"}

ZipMembers == [name : MemberNames, file_size : FileSizes, data : Contents]

\* archives: member names are distinct
Archives ==
    {m \in SeqsUpTo(ZipMembers, MaxMembers) :
        \A i, j \in DOMAIN m : i # j => m[i].name # m[j].name}

InputBuffers ==
    {[kind |-> "raw", data |-> c] : c \in Contents \ {"badgz"}}
    \cup {[kind |-> "zip", members |-> m] : m \in Archives}

Paths == {"p1", "p2"}
Texts == {<<>>, <<" ">>, <<"a">>, <<" ", "b", " ">>}

Documents ==
    [Paths -> [kind : {"element", "string"}, texts : SeqsUpTo(Texts, MaxMatches)]]

\* priority-ordered candidate lists
CandidateLists == {<<>>, <<"p1">>, <<"p2">>, <<"p1", "p2">>, <<"p2", "p1">>}

Namespaces == {<<>>, <<"urn:", "land">>, <<"urn:", "extract_about_property_">>}
RootNames ==
    { <<"extract_about_property_", "land">>,
      <<"EXTRACT_ABOUT_PROPERTY_", "LAND">>,
      <<"x_", "extract_about_property_", "land">>,
      <<"extract_about_property_", "build">>,
      <<"land", "_plot">>, <<"land">>,
      <<"land_record">>, <<"parcel">>, <<"root">> }
ElementNames ==
    { <<"land_record">>, <<"parcel">>, <<"LandRecord">>,
      <<"LAND_RECORD">>, <<"build_record">> }

Trees == [ns : Namespaces, local : RootNames, elems : SUBSET ElementNames]

NoAttrs == [a \in {"X", "x", "Y", "y", "Num", "num"} |-> None]
Attr(text) == [kind |-> "attr", text |-> text]
NoChildren == [p \in {"x", "y", "ord_nmb"} |-> <<>>]
Ordinate(children, attrs) == [children |-> children, attrs |-> attrs]

\* <ordinate><x>1</x><y>2</y><ord_nmb>7</ord_nmb></ordinate>
OrdFull == Ordinate([x |-> << <<"1">> >>, y |-> << <<"2">> >>, ord_nmb |-> << <<"7">> >>], NoAttrs)
\* <Ordinate X="3" Y="4" Num="9"/>
OrdAttrs == Ordinate(NoChildren, [NoAttrs EXCEPT !["X"] = Attr(<<"3">>), !["Y"] = Attr(<<"4">>), !["Num"] = Attr(<<"9">>)])
\* x and y without any point number
OrdNoNum == Ordinate([x |-> << <<" ", "5">> >>, y |-> << <<"6">> >>, ord_nmb |-> <<>>], NoAttrs)
\* a point number without x and y
OrdNumOnly == Ordinate([x |-> <<>>, y |-> << <<" ">> >>, ord_nmb |-> << <<"8">> >>], NoAttrs)
\* an ordinate without anything
OrdEmpty == Ordinate(NoChildren, NoAttrs)
\* lower-case attributes, a blank number
OrdLower == Ordinate(NoChildren, [NoAttrs EXCEPT !["x"] = Attr(<<"1">>), !["y"] = Attr(<<"1", " ">>), !["num"] = Attr(<<" ">>)])

\* the contours of contours_location, each the ordinates of its rings
ContourNodes ==
    { <<OrdFull>>, <<OrdAttrs>>, <<OrdFull, OrdAttrs>>,
      <<OrdNoNum, OrdNumOnly>>, <<OrdNumOnly>>, <<OrdEmpty>>, <<OrdLower>> }
PartNodes == { <<>>, <<OrdAttrs>>, <<OrdEmpty, OrdNoNum>> }
OldNodes == { <<>>, <<OrdAttrs>>, <<OrdLower, OrdFull>> }

OwnCad == <<"4", "2", ":", "3", "0", ":", "0", "1", "0", "2", "0", "3", ":", "7">>
OtherCad == <<"4", "2", ":", "3", "0", ":", "0", "1", "0", "2", "0", "3", ":", "1", "5">>
\* texts of the cad_number elements below included_objects
CadTexts ==
    { OwnCad, OtherCad, <<" ">> \o OtherCad \o <<" ">>, OtherCad \o <<"x">>,
      <<"4", "2", ":", "3", "0", ":", "1", "2", ":", "7">>, <<" ">> }

Fields(cad_number, cadnum, readable_address, region, area_value, included_objects) ==
    [cad_number |-> cad_number, cadnum |-> cadnum, readable_address |-> readable_address,
     region |-> region, area_value |-> area_value, included_objects |-> included_objects]

\* the texts of the documents: all fields, none, and some of them
EgrnFields ==
    { Fields(<< OwnCad >>, <<>>, << <<"a">> >>, << <<"r">> >>, << <<"7", ".", "5", "0">> >>,
             << OwnCad, OtherCad >>),
      Fields(<<>>, <<>>, <<>>, <<>>, <<>>, <<>>),
      Fields(<<>>, << OwnCad >>, <<>>, << <<" ">> >>,
             << <<"m">>, <<"1", "2", ",", "0", "0", " ", "m">> >>, << OtherCad >>),
      Fields(<< <<" ">>, OwnCad >>, <<>>, << <<"a">> >>, <<>>, <<>>, << OwnCad >>) }

\* parsed EGRN documents for the coordinate claims
EgrnDocuments ==
    [fields : EgrnFields,
     contours_location : SeqsUpTo(ContourNodes, MaxContours),
     object_parts : PartNodes, EntitySpatial : OldNodes]

CapitalFields ==
    [cad_number : {<<>>, << OwnCad >>, << <<" ">>, OwnCad >>},
     cadnum : {<<>>, << OwnCad >>},
     readable_address : {<<>>}, region : {<<>>}, area_value : {<<>>},
     included_objects : SeqsUpTo(CadTexts, MaxObjects)]

\* parsed EGRN documents for the linked-objects claim
CapitalDocuments ==
    [fields : CapitalFields,
     contours_location : {<< <<OrdFull>> >>}, object_parts : {<<>>}, EntitySpatial : {<<>>}]

LandTrees ==
    { [ns |-> <<>>, local |-> <<"extract_about_property_", "land">>, elems |-> {<<"land_record">>}],
      [ns |-> <<>>, local |-> <<"extract_about_property_", "build">>, elems |-> {<<"build_record">>}] }

XY(x, y) == Ordinate([x |-> << x >>, y |-> << y >>, ord_nmb |-> <<>>], NoAttrs)
\* the points A = (0, 0), B = (1, 0), C = (1, 1) as ordinates
KptA == XY(<<"0">>, <<"0">>)
\* A again, written differently: x "0,0" as a child, Y=" 0" as an attribute
KptA2 == Ordinate([x |-> << <<"0", ",", "0">> >>, y |-> <<>>, ord_nmb |-> <<>>],
                  [NoAttrs EXCEPT !["Y"] = Attr(<<" ", "0">>)])
KptB == XY(<<"1">>, <<"0">>)
KptC == XY(<<"1">>, <<"1", ".", "0">>)
\* an ordinate whose x is no number
KptBad == XY(<<"x">>, <<"1">>)

Territorial == << <<"territorial", " ", "zone">> >>
OtherBoundary == << <<"municipal", " ", "border">> >>
KptTexts(zone_name, name, zone_code, description, type) ==
    [zone_name |-> zone_name, name |-> name, zone_code |-> zone_code, code |-> <<>>,
     description |-> description, type_boundary |-> type]

KptRecord(texts, contours_location) == [texts |-> texts, contours_location |-> contours_location]
NamedR == KptTexts(<< <<"R">> >>, <<>>, << <<"r", "1">> >>, <<>>, Territorial)
NamedN == KptTexts(<< <<" ">> >>, << <<"N", " ">> >>, <<>>, <<>>, Territorial)
Described == KptTexts(<<>>, <<>>, << <<" ">> >>, << <<"D">> >>, Territorial)
Nameless == KptTexts(<<>>, <<>>, <<>>, <<>>, Territorial)
BorderR == KptTexts(<< <<"R">> >>, <<>>, <<>>, <<>>, OtherBoundary)
BorderNameless == KptTexts(<<>>, <<>>, <<>>, <<>>, OtherBoundary)
RingABC == << <<KptA, KptB, KptC>> >>
RingABAB == << <<KptA, KptB, KptA, KptB>> >>
RingsABA_ABC == << <<KptA, KptB, KptA>>, <<KptA, KptA2, KptB, KptC, KptA>> >>
RingBad == << <<KptA, KptBad, KptB>> >>

\* the records of the primary shape
KptRecords ==
    { KptRecord(NamedR, RingABC), KptRecord(NamedR, RingABAB), KptRecord(NamedR, <<>>),
      KptRecord(NamedR, RingsABA_ABC), KptRecord(NamedN, RingsABA_ABC),
      KptRecord(NamedN, RingBad), KptRecord(Described, RingABC),
      KptRecord(Nameless, RingABC), KptRecord(Nameless, <<>>),
      KptRecord(BorderR, RingABC), KptRecord(BorderR, RingBad),
      KptRecord(BorderNameless, RingABAB) }

SecondaryLists ==
    { <<>>,
      << [texts |-> KptTexts(<< <<"J">> >>, <<>>, << <<"j">> >>, <<>>, Territorial),
          contours_location |-> << <<KptA, KptB, KptC>> >>] >>,
      << [texts |-> KptTexts(<<>>, << <<"N">> >>, <<>>, <<>>, OtherBoundary),
          contours_location |-> << <<KptA, KptB>> >>] >> }

\* parsed KPT documents
KptDocuments ==
    [zones_and_territories_records : SeqsUpTo(KptRecords, MaxZoneRecords),
     territorial_zones : SecondaryLists]

Workflows == 1 .. MaxWorkflows

ZoneRecord(name, cells) == [name |-> name, geometry |-> Geom(cells, "ok")]

\* what the workflows of one deployment ask of the core at the same time
Invocations ==
    {Frame("determine_zone", Rect(0, 2), <<ZoneRecord("A", {0}), ZoneRecord("B", {1})>>, None),
     Frame("determine_zone", Rect(1, 3), <<ZoneRecord("A", {0, 1}), ZoneRecord("B", {2})>>, None),
     Frame("determine_zone", Flat, <<ZoneRecord("A", {0})>>, None),
     Frame("find_restrictions_for_parcel", Rect(0, 2),
           <<ZoneRecord("A", {0}), ZoneRecord("B", {1})>>, None),
     Frame("find_restrictions_for_parcel", Rect(2, 3),
           <<ZoneRecord("A", {0}), ZoneRecord("B", {2})>>, None),
     Frame("parse_egrn_xml", <<>>, <<>>, [kind |-> "raw", data |-> "wf"]),
     Frame("parse_egrn_xml", <<>>, <<>>, [kind |-> "raw", data |-> "malformed"])}

Processes == 1 .. MaxProcesses

JournalCells == {NoValue, Num(1), Str(2), Junk}

JournalRows ==
    {[i \in 1 .. k |-> Row(c[i], 0)] : k \in 0 .. MaxRows,
                                       c \in [1 .. MaxRows -> JournalCells]}

TemplateSets == {{}, {2}, {1, 3}, {1, 2, 3}}

\* the files of the generator before any call
JournalFiles ==
    {[exists |-> TRUE, headers |-> h, intact |-> TRUE, rows |-> r,
      templates |-> t] : h \in BOOLEAN, r \in JournalRows, t \in TemplateSets}
    \cup {[exists |-> FALSE, headers |-> TRUE, intact |-> TRUE, rows |-> <<>>,
           templates |-> {1, 2, 3}]}

\* zone names determine_zone can return from a KPT, None when it finds none
DetectedNames ==
    {None} \cup {[kind |-> "text", val |-> v] :
                    v \in {<<>>, <<"z">>, <<"z", " ", "j", "1">>, <<"R", "1">>}}

\* the codes a zone: callback can carry
CallbackCodes == ZoneKeys \cup {<<"X">>}

Txt(chars) == [kind |-> "text", val |-> chars]
Pair(x, y) == [x |-> x, y |-> y]

\* parcel.coordinates as create_gp_data_from_parsed fills it: texts, some
\* with a decimal comma or spaces, some that are no number, some absent
CoordinateLists ==
    { <<>>,
      <<Pair(Txt(<<"a">>), Txt(<<"1">>))>>,
      <<Pair(None, Txt(<<"0">>)), Pair(Txt(<<>>), Txt(<<"0">>))>>,
      <<Pair(Txt(<<"1">>), Txt(<<"0">>))>>,
      <<Pair(Txt(<<"0">>), Txt(<<"0">>)), Pair(Txt(<<"2">>), Txt(<<"0">>)),
        Pair(Txt(<<"2">>), Txt(<<"1">>)), Pair(Txt(<<"0">>), Txt(<<"1">>))>>,
      <<Pair(Txt(<<"1", ",", "0">>), Txt(<<" ", "0">>)),
        Pair(Txt(<<"3">>), Txt(<<"0", ".", "0">>)),
        Pair(Txt(<<"x">>), Txt(<<"1">>)),
        Pair(Txt(<<"3">>), Txt(<<"1">>)), Pair(Txt(<<"1">>), Txt(<<"1">>))>> }

\* layer files: absent, unreadable, empty, or with records on the strip
LayerFiles ==
    {Missing, Broken, Records(<<>>),
     Records(<<ZoneRecord("A", {0})>>),
     Records(<<ZoneRecord("A", {2}), ZoneRecord("B", {1, 2})>>)}

\* GPData() as create_gp_data_from_parsed returns it
NewGPData(coordinates) ==
    [coordinates |-> coordinates, zone |-> None, capital_objects |-> <<>>,
     planning_project |-> [exists |-> FALSE, project |-> None],
     zouit |-> <<>>, warnings |-> <<>>, errors |-> <<>>,
     analysis_completed |-> FALSE]

(* --------------------------- specifications ---------------------------- *)

\* the arguments a specification does not use
NoGeometry == parcel_coords = <<>> /\ layer = <<>>
NoBytes == input_bytes = None
NoField == document = None /\ xpaths = <<>>
NoTree == tree = None
NoCore == NoGeometry /\ NoBytes /\ NoField /\ NoTree
NoWorkflows == frames = <<>>
NoJournal == journal = None /\ lock = None /\ workers = <<>>
NoChat == chat = None
NoAnalysis == gp_data = None /\ layers = None
NoDownload == download = None
NoShell == NoWorkflows /\ NoJournal /\ NoChat /\ NoAnalysis /\ NoDownload

InitZone ==
    /\ NoShell
    /\ parcel_coords \in ParcelContours
    /\ layer \in ZoneLayers
    /\ NoBytes /\ NoField /\ NoTree
    /\ call = "init"
    /\ result = None
    /\ examined = <<>>

CallDetermineZone ==
    /\ call = "init"
    /\ call' = "determine_zone"
    /\ result' = determine_zone(Parcel(parcel_coords), ZoneShapes(layer))
    /\ UNCHANGED <<inputs, examined>>

CallFindZoneForParcel ==
    /\ call = "init"
    /\ call' = "find_zone_for_parcel"
    /\ result' = find_zone_for_parcel(parcel_coords, layer)
    /\ UNCHANGED <<inputs, examined>>

NextZone == CallDetermineZone \/ CallFindZoneForParcel

SpecZone == InitZone /\ [][NextZone]_vars

InitMatch ==
    /\ NoShell
    /\ parcel_coords \in ParcelContours
    /\ layer \in RecordLayers
    /\ NoBytes /\ NoField /\ NoTree
    /\ call = "init"
    /\ result = None
    /\ examined = <<>>

CallFindRestrictions ==
    /\ call = "init"
    /\ call' = "find_restrictions_for_parcel"
    /\ result' = find_restrictions_for_parcel(parcel_coords, layer)
    /\ UNCHANGED <<inputs, examined>>

CallFindObjects ==
    /\ call = "init"
    /\ call' = "find_objects_on_parcel"
    /\ result' = find_objects_on_parcel(parcel_coords, layer)
    /\ UNCHANGED <<inputs, examined>>

CallCheckPlanningProject ==
    /\ call = "init"
    /\ call' = "check_planning_project_intersection"
    /\ LET r == check_planning_project_intersection(parcel_coords, layer)
       IN result' = r.ret /\ examined' = r.tested
    /\ UNCHANGED inputs

NextMatch == CallFindRestrictions \/ CallFindObjects \/ CallCheckPlanningProject

SpecMatch == InitMatch /\ [][NextMatch]_vars

InitContainer ==
    /\ NoShell
    /\ input_bytes \in InputBuffers
    /\ NoGeometry /\ NoField /\ NoTree
    /\ call = "init"
    /\ result = None
    /\ examined = <<>>

CallParseEgrnXml ==
    /\ call = "init"
    /\ input_bytes # None
    /\ call' = "parse_egrn_xml"
    /\ result' = parse_egrn_xml(input_bytes)
    /\ UNCHANGED <<inputs, examined>>

CallParseKptXml ==
    /\ call = "init"
    /\ input_bytes # None
    /\ call' = "parse_kpt_xml"
    /\ result' = parse_kpt_xml(input_bytes)
    /\ UNCHANGED <<inputs, examined>>

NextContainer == CallParseEgrnXml \/ CallParseKptXml

SpecContainer == InitContainer /\ [][NextContainer]_vars

InitField ==
    /\ NoShell
    /\ document \in Documents
    /\ xpaths \in CandidateLists
    /\ NoGeometry /\ NoBytes /\ NoTree
    /\ call = "init"
    /\ result = None
    /\ examined = <<>>

CallEgrnFirstText ==
    /\ call = "init"
    /\ document # None
    /\ call' = "egrn_first_text"
    /\ result' = first_text(document, xpaths)
    /\ UNCHANGED <<inputs, examined>>

CallKptFirstText ==
    /\ call = "init"
    /\ document # None
    /\ call' = "kpt_first_text"
    /\ result' = first_text(document, xpaths)
    /\ UNCHANGED <<inputs, examined>>

NextField == CallEgrnFirstText \/ CallKptFirstText

SpecField == InitField /\ [][NextField]_vars

InitLand ==
    /\ NoShell
    /\ tree \in Trees
    /\ NoGeometry /\ NoBytes /\ NoField
    /\ call = "init"
    /\ result = None
    /\ examined = <<>>

CallExtractIsLand ==
    /\ call = "init"
    /\ tree # None
    /\ call' = "_extract_is_land"
    /\ result' = [kind |-> "bool", val |-> extract_is_land(tree)]
    /\ UNCHANGED <<inputs, examined>>

NextLand == CallExtractIsLand

SpecLand == InitLand /\ [][NextLand]_vars

InitEgrn ==
    /\ NoShell
    /\ document \in EgrnDocuments
    /\ tree \in LandTrees
    /\ xpaths = <<>>
    /\ NoGeometry /\ NoBytes
    /\ call = "init"
    /\ result = None
    /\ examined = <<>>

InitCapital ==
    /\ NoShell
    /\ document \in CapitalDocuments
    /\ tree \in LandTrees
    /\ xpaths = <<>>
    /\ NoGeometry /\ NoBytes
    /\ call = "init"
    /\ result = None
    /\ examined = <<>>

CallParseEgrnDocument ==
    /\ call = "init"
    /\ document # None /\ tree # None
    /\ call' = "parse_egrn_document"
    /\ result' = parse_egrn_document(document, tree)
    /\ UNCHANGED <<inputs, examined>>

NextEgrn == CallParseEgrnDocument

SpecEgrn == InitEgrn /\ [][NextEgrn]_vars

SpecCapital == InitCapital /\ [][NextEgrn]_vars

InitKpt ==
    /\ NoShell
    /\ document \in KptDocuments
    /\ xpaths = <<>>
    /\ NoGeometry /\ NoBytes /\ NoTree
    /\ call = "init"
    /\ result = None
    /\ examined = <<>>

\* the List[Zone] returned, and the records its zones were read from
ZoneList(normed) == [kind |-> "zones", zones |-> [k \in DOMAIN normed |-> normed[k].zone]]
ZoneOrigins(normed) ==
    [k \in DOMAIN normed |-> [shape |-> normed[k].shape, index |-> normed[k].index]]

CallParseKptDocument ==
    /\ call = "init"
    /\ document # None
    /\ call' = "parse_kpt_document"
    /\ result' = ZoneList(parse_kpt_document(document))
    /\ examined' = ZoneOrigins(parse_kpt_document(document))
    /\ UNCHANGED inputs

NextKpt == CallParseKptDocument

SpecKpt == InitKpt /\ [][NextKpt]_vars

\* Workflows calling the core at the same time, without locking: the
\* interpreter switches between them after any statement block.
InitWorkflows ==
    /\ NoCore /\ NoJournal /\ NoChat /\ NoAnalysis /\ NoDownload
    /\ frames \in [Workflows -> Invocations]
    /\ call = "init"
    /\ result = None
    /\ examined = <<>>

\* workflow w runs the next statement block of its invocation
Step(w) ==
    /\ frames[w].pc # "done"
    /\ frames' = Store(frames, w, StepOf(View(frames, w)))
    /\ call' = frames[w].fn
    /\ UNCHANGED <<core, journal, lock, workers, chat, gp_data, layers,
                   download, result, examined>>

NextWorkflows == \E w \in Workflows : Step(w)

SpecWorkflows == InitWorkflows /\ [][NextWorkflows]_vars

\* Processes calling build_tu_docs_with_outgoing on the same journal.
InitJournal ==
    /\ NoCore /\ NoWorkflows /\ NoChat /\ NoAnalysis /\ NoDownload
    /\ journal \in JournalFiles
    /\ lock = None
    /\ workers = [p \in Processes |-> NotCalled]
    /\ call = "init"
    /\ result = None
    /\ examined = <<>>

JournalFrame ==
    UNCHANGED <<core, frames, chat, gp_data, layers, download, result, examined>>

\* tu_requests_builder.py:126-130: the existence test, then the lock
Enter(p) ==
    /\ workers[p].pc = "idle"
    /\ workers' = [workers EXCEPT ![p] =
                     IF journal.exists THEN [@ EXCEPT !.pc = "waiting"]
                     ELSE Raise(@)]
    /\ call' = "enter"
    /\ UNCHANGED <<journal, lock>>
    /\ JournalFrame

\* `with lock:` entered
Acquire(p) ==
    /\ workers[p].pc = "waiting"
    /\ LockFree(lock)
    /\ lock' = [kind |-> "held", by |-> p]
    /\ workers' = [workers EXCEPT ![p].pc = "locked"]
    /\ call' = "acquire"
    /\ UNCHANGED journal
    /\ JournalFrame

\* the lock stayed taken for 3 seconds: Timeout, turned into RuntimeError
LockTimeout(p) ==
    /\ workers[p].pc = "waiting"
    /\ ~LockFree(lock)
    /\ workers' = [workers EXCEPT ![p] = Raise(@)]
    /\ call' = "timeout"
    /\ UNCHANGED <<journal, lock>>
    /\ JournalFrame

\* tu_requests_builder.py:134-206: load_workbook, the header test, the scan
\* and the template loop; any exception leaves the `with` and frees the lock
Load(p) ==
    /\ workers[p].pc = "locked"
    /\ \E permission_error \in BOOLEAN, fail_at \in 0 .. NumTemplates :
         LET built == BuildDocs(journal, [incoming |-> p, fail_at |-> fail_at])
             fails == \/ permission_error \/ ~journal.intact
                      \/ ~journal.headers \/ built.raised
         IN /\ workers' = [workers EXCEPT ![p] =
                             IF fails THEN Raise(@)
                             ELSE [@ EXCEPT !.pc = "built",
                                            !.read = journal.rows,
                                            !.wb = built.wb,
                                            !.docs = built.docs]]
            /\ lock' = IF fails THEN None ELSE lock
    /\ call' = "load"
    /\ UNCHANGED journal
    /\ JournalFrame

\* tu_requests_builder.py:208-231: wb.save, the end of the `with`, return.
\* openpyxl opens the journal for writing and then writes the workbook into
\* it: a save that is refused leaves the file as it was, one that fails
\* while writing leaves a file that is no workbook.
Save(p) ==
    /\ workers[p].pc = "built"
    /\ \E outcome \in {"saved", "refused", "broken"} :
         /\ journal' = IF outcome = "saved"
                       THEN [journal EXCEPT !.rows = workers[p].wb]
                       ELSE IF outcome = "broken"
                       THEN [journal EXCEPT !.intact = FALSE, !.rows = <<>>]
                       ELSE journal
         /\ workers' = [workers EXCEPT ![p] =
                          IF outcome = "saved"
                          THEN [@ EXCEPT !.pc = "returned", !.saves = @ + 1,
                                         !.ret = List(workers[p].docs)]
                          ELSE Raise(@)]
    /\ lock' = None
    /\ call' = "save"
    /\ JournalFrame

NextJournal ==
    \E p \in Processes :
        Enter(p) \/ Acquire(p) \/ LockTimeout(p) \/ Load(p) \/ Save(p)

SpecJournal == InitJournal /\ [][NextJournal]_vars

\* One chat of the EGRN + KPT flow: the handlers of bot.py, each run to its
\* end on one update (the dispatcher handles the updates of a chat in turn).
InitChat ==
    /\ NoCore /\ NoWorkflows /\ NoJournal /\ NoAnalysis /\ NoDownload
    /\ chat = [state |-> "None", egrn |-> FALSE, detected_zone_code |-> None,
               offered |-> {}, documents |-> <<>>]
    /\ call = "init"
    /\ result = None
    /\ examined = <<>>

ChatFrame ==
    UNCHANGED <<core, frames, journal, lock, workers, gp_data, layers,
                download, result, examined>>

\* /start
start ==
    /\ chat' = [Cleared(chat) EXCEPT !.state = "WAIT_EGRN"]
    /\ call' = "start"
    /\ ChatFrame

\* the "act_restart" button of a message the bot sent
cb_restart ==
    /\ "act_restart" \in chat.offered
    /\ chat' = [Cleared(chat) EXCEPT !.state = "WAIT_EGRN"]
    /\ call' = "cb_restart"
    /\ ChatFrame

\* a document in WAIT_EGRN: kept when it is a land extract with a cadastral
\* number and coordinates
got_egrn ==
    /\ chat.state = "WAIT_EGRN"
    /\ \E accepted \in BOOLEAN :
         chat' = IF accepted
                 THEN [chat EXCEPT !.egrn = TRUE, !.state = "WAIT_KPT"]
                 ELSE [chat EXCEPT !.offered = @ \cup start_over_keyboard]
    /\ call' = "got_egrn"
    /\ ChatFrame

\* a document in WAIT_KPT: when it downloads and parses, the zone is
\* looked up, its code stored and the decision keyboard sent
got_kpt ==
    /\ chat.state = "WAIT_KPT"
    /\ \E accepted \in BOOLEAN, detected_name \in DetectedNames :
         LET detected_code == try_detect_code(detected_name)
         IN chat' =
              IF ~chat.egrn \/ ~accepted
              THEN [chat EXCEPT !.offered = @ \cup start_over_keyboard]
              ELSE [chat EXCEPT
                      !.detected_zone_code =
                          IF detected_code = None
                          THEN [kind |-> "text", val |-> <<>>]
                          ELSE detected_code,
                      !.state = "WAIT_DECISION",
                      !.offered = @ \cup (IF detected_code # None
                                          THEN decision_keyboard_two
                                          ELSE manual_only_keyboard)]
    /\ call' = "got_kpt"
    /\ ChatFrame

\* "act_prepare" in WAIT_DECISION, from any message that carries the button
cb_prepare ==
    /\ chat.state = "WAIT_DECISION"
    /\ "act_prepare" \in chat.offered
    /\ Len(chat.documents) < MaxDocuments
    /\ \E sent \in BOOLEAN :
         chat' = Cleared(generate_and_send_gpzu(chat, PreparedCode(chat), FALSE, sent))
    /\ call' = "cb_prepare"
    /\ ChatFrame

\* "act_manual" in WAIT_DECISION
cb_manual ==
    /\ chat.state = "WAIT_DECISION"
    /\ "act_manual" \in chat.offered
    /\ chat' = [chat EXCEPT !.state = "WAIT_ZONE_SELECT",
                            !.offered = @ \cup zones_keyboard]
    /\ call' = "cb_manual"
    /\ ChatFrame

\* "zone:<code>" in WAIT_ZONE_SELECT
cb_zone_select ==
    /\ chat.state = "WAIT_ZONE_SELECT"
    /\ "zone:" \in chat.offered
    /\ Len(chat.documents) < MaxDocuments
    /\ \E code \in CallbackCodes, sent \in BOOLEAN :
         chat' = IF code \notin ZoneKeys
                 THEN [chat EXCEPT !.offered = @ \cup start_over_keyboard]
                 ELSE IF ~chat.egrn
                 THEN Cleared([chat EXCEPT !.offered = @ \cup start_over_keyboard])
                 ELSE Cleared(generate_and_send_gpzu(
                                 chat, [kind |-> "text", val |-> code], TRUE, sent))
    /\ call' = "cb_zone_select"
    /\ ChatFrame

\* any other message in WAIT_DECISION or WAIT_ZONE_SELECT
expecting_decision ==
    /\ chat.state \in {"WAIT_DECISION", "WAIT_ZONE_SELECT"}
    /\ chat' = [chat EXCEPT !.offered = @ \cup start_over_keyboard]
    /\ call' = "expecting_decision"
    /\ ChatFrame

NextChat ==
    \/ start \/ cb_restart \/ got_egrn \/ got_kpt
    \/ cb_prepare \/ cb_manual \/ cb_zone_select \/ expecting_decision

SpecChat == InitChat /\ [][NextChat]_vars

\* The analysis applied to one GPData, once and again, the layer files
\* staying as they are.
InitAnalysis ==
    /\ NoCore /\ NoWorkflows /\ NoJournal /\ NoChat /\ NoDownload
    /\ gp_data \in {NewGPData(c) : c \in CoordinateLists}
    /\ layers \in [zone : LayerFiles, capital_objects : LayerFiles,
                   planning_projects : LayerFiles, zouit : LayerFiles]
    /\ call = "init"
    /\ result = None
    /\ examined = <<>>

\* what one application did: the GPData before and after, the stages run
Application(before, done) ==
    [before |-> before, after |-> done.gp, stages |-> done.stages]

CallPerformSpatialAnalysis ==
    /\ Len(examined) < MaxApplications
    /\ gp_data' = perform_spatial_analysis(gp_data, layers).gp
    /\ result' = perform_spatial_analysis(gp_data, layers).gp
    /\ examined' = Append(examined, Application(gp_data,
                                        perform_spatial_analysis(gp_data, layers)))
    /\ call' = "perform_spatial_analysis"
    /\ UNCHANGED <<core, frames, journal, lock, workers, chat, layers, download>>

NextAnalysis == CallPerformSpatialAnalysis

SpecAnalysis == InitAnalysis /\ [][NextAnalysis]_vars

\* One call of download_with_retries (bot.py's _download_with_retries is
\* the same function); every await ends: the download answers or raises,
\* the sleep is over.
InitDownload ==
    /\ NoCore /\ NoWorkflows /\ NoJournal /\ NoChat /\ NoAnalysis
    /\ download \in {Download(r) : r \in 0 .. MaxRetries}
    /\ call = "init"
    /\ result = None
    /\ examined = <<>>

DownloadFrame ==
    UNCHANGED <<core, frames, journal, lock, workers, chat, gp_data, layers,
                result, examined>>

InLoop ==
    /\ download.pc = "loop"
    /\ ~LoopEnds(download.attempt, download.retries)
    /\ Len(download.tries) <= MaxRetries

\* core/utils.py:17-20: the attempt gives the data, which is returned
AttemptSucceeds ==
    /\ InLoop
    /\ download' = [download EXCEPT
                      !.tries = Append(@, Data(download.attempt)),
                      !.pc = "returned",
                      !.ret = Data(download.attempt)]
    /\ call' = "download"
    /\ DownloadFrame

\* core/utils.py:21-31: the attempt raises; the exception is kept, the
\* call sleeps and the loop goes on
AttemptFails ==
    /\ InLoop
    /\ \E ex \in Exceptions :
         download' = [download EXCEPT
                        !.tries = Append(@, Failure(ex)),
                        !.last_exc = Failure(ex),
                        !.attempt = @ + 1]
    /\ call' = "retry"
    /\ DownloadFrame

\* core/utils.py:32: after the loop
RaiseLast ==
    /\ download.pc = "loop"
    /\ LoopEnds(download.attempt, download.retries)
    /\ download' = [download EXCEPT !.pc = "raised",
                                    !.ret = LastOr(download.last_exc)]
    /\ call' = "raise"
    /\ DownloadFrame

NextDownload == AttemptSucceeds \/ AttemptFails \/ RaiseLast

SpecDownload == InitDownload /\ [][NextDownload]_vars

SpecDownloadFair == SpecDownload /\ WF_vars(NextDownload)

(* ===================== claims: resolver and matchers =================== *)

Resolvers == {"determine_zone", "find_zone_for_parcel"}
Matchers == {"find_restrictions_for_parcel", "find_objects_on_parcel"}

\* The parcel polygon, empty when the contour builds none.
ParcelShape == IF Len(parcel_coords) < 3 THEN {} ELSE PolygonCells(parcel_coords)
ParcelCentroid == Centroid(ParcelShape)

\* A record the operation `op` cannot use: it has no geometry, its contour
\* cannot be built, or the geometric test `op` runs on it raises (for
\* find_zone_for_parcel: contains; intersection when contains answered False).
BadRecord(op, rec) ==
    \/ rec.geometry.kind = "none"
    \/ /\ rec.geometry.fault # "ok"
       /\ \/ op = "determine_zone"
          \/ rec.geometry.fault = "pred"
          \/ op = "find_zone_for_parcel"
             /\ ~Contains(rec.geometry.cells, Centroid(PolygonCells(parcel_coords)))

\* The shape a record presents: empty when it cannot be built, or when
\* the operation `op` cannot test it (the test raises, the contour is unbuildable).
ShapeOf(rec) == IF rec.geometry.kind = "geom" THEN rec.geometry.cells ELSE {}
UsableShape(op, rec) ==
    IF rec.geometry.kind = "none" THEN {}
    ELSE IF op = "determine_zone" /\ rec.geometry.fault # "ok" THEN {}
    ELSE IF op = "find_zone_for_parcel" /\ rec.geometry.fault = "pred" THEN {}
    ELSE rec.geometry.cells

\* zone i contains the parcel centroid (its contains test answers True)
HoldsCentroid(i) == Contains(UsableShape(call, layer[i]), ParcelCentroid)
\* the intersection area of zone i with the parcel (0 when it cannot be computed)
OverlapOf(i) ==
    IF layer[i].geometry.kind = "geom" /\ layer[i].geometry.fault = "overlay"
       /\ call = "find_zone_for_parcel"
    THEN 0
    ELSE Cardinality(ParcelShape \cap UsableShape(call, layer[i]))

NameOf(i) == [kind |-> "zone", name |-> layer[i].name]

\* C1: whenever some zone contains the centroid of a buildable parcel, the
\* resolver returns the zone of smallest index among those containing it,
\* whatever the intersection areas of the other zones.
C1_FirstContainingZone ==
    (call \in Resolvers /\ ParcelShape # {}
        /\ \E i \in DOMAIN layer : HoldsCentroid(i))
    => LET first == MinOf({i \in DOMAIN layer : HoldsCentroid(i)})
       IN result = NameOf(first)

\* C1, where it holds: no zone before the first containing one has a
\* geometry whose contains test raises.
C1_FirstContainingZone_NoRaise ==
    (call \in Resolvers /\ ParcelShape # {}
        /\ \E i \in DOMAIN layer : HoldsCentroid(i))
    => LET first == MinOf({i \in DOMAIN layer : HoldsCentroid(i)})
       IN (\A j \in 1 .. first - 1 :
              ~(call = "find_zone_for_parcel" /\ layer[j].geometry.kind = "geom"
                /\ layer[j].geometry.fault = "pred"))
          => result = NameOf(first)

\* no zone contains the centroid, some zone overlaps the parcel
Phase2 ==
    /\ call \in Resolvers
    /\ ParcelShape # {}
    /\ \A i \in DOMAIN layer : ~HoldsCentroid(i)
    /\ \E i \in DOMAIN layer : OverlapOf(i) > 0

\* the earliest zone of greatest intersection area
GreatestOverlap ==
    CHOOSE i \in DOMAIN layer :
        /\ \A j \in DOMAIN layer : OverlapOf(j) <= OverlapOf(i)
        /\ \A j \in 1 .. i - 1 : OverlapOf(j) < OverlapOf(i)

\* C2: when no zone contains the centroid and some zone has positive
\* intersection area, the resolver returns the zone of greatest intersection
\* area, the earliest one among equals.
C2_GreatestOverlap == Phase2 => result = NameOf(GreatestOverlap)

\* C2, where it holds: no zone has a geometry whose contains test raises.
C2_GreatestOverlap_NoRaise ==
    (Phase2 /\ \A j \in DOMAIN layer :
                  ~(call = "find_zone_for_parcel" /\ layer[j].geometry.kind = "geom"
                    /\ layer[j].geometry.fault = "pred"))
    => result = NameOf(GreatestOverlap)

\* C3: when no zone contains the centroid and every zone has zero
\* intersection area with the parcel (an empty list, zones that cannot be
\* built), the resolver returns None: it neither raises nor picks a zone.
C3_Undetermined ==
    /\ call \in Resolvers => result # Raised
    /\ (call \in Resolvers
          /\ \A i \in DOMAIN layer : ~HoldsCentroid(i) /\ OverlapOf(i) = 0)
       => result = None

\* C3 witness: a buildable parcel, two zones beside it, none returned.
C3_Witness ==
    /\ call = "find_zone_for_parcel"
    /\ ParcelShape = {0}
    /\ Len(layer) = 2
    /\ layer[1].geometry = Geom({1, 2}, "ok")
    /\ layer[2].geometry = Geom({2}, "ok")
    /\ result = None

\* record i matches: it has a geometry whose intersects test answers True
Matches(i) ==
    /\ layer[i].geometry.kind = "geom"
    /\ layer[i].geometry.fault # "pred"
    /\ Intersects(ParcelShape, layer[i].geometry.cells)

Matching == {i \in DOMAIN layer : Matches(i)}
\* the k-th matching record, in input order
NthMatching(k) ==
    CHOOSE i \in Matching : Cardinality({j \in Matching : j <= i}) = k

\* C4: the matchers return exactly the records whose geometry intersects
\* the parcel polygon, each once per record, in input order, duplicates kept.
C4_ExactSubsequence ==
    call \in Matchers =>
        /\ result.kind = "list"
        /\ Len(result.items) = Cardinality(Matching)
        /\ \A k \in 1 .. Len(result.items) :
              result.items[k] = [name |-> layer[NthMatching(k)].name]

\* C4 witness: two identical intersecting records are both returned.
C4_Witness ==
    /\ call = "find_restrictions_for_parcel"
    /\ Len(layer) = 2
    /\ layer[1] = layer[2]
    /\ Matches(1)
    /\ Len(result.items) = 2

RemoveAt(seq, i) == [k \in 1 .. Len(seq) - 1 |-> IF k < i THEN seq[k] ELSE seq[k + 1]]

\* what the operation `op` returns for a parcel and a layer
Returned(op, coords, lyr) ==
    CASE op = "determine_zone" -> determine_zone(Parcel(coords), ZoneShapes(lyr))
      [] op = "find_zone_for_parcel" -> find_zone_for_parcel(coords, lyr)
      [] op = "find_restrictions_for_parcel" -> find_restrictions_for_parcel(coords, lyr)
      [] op = "find_objects_on_parcel" -> find_objects_on_parcel(coords, lyr)
      [] op = "check_planning_project_intersection" ->
            check_planning_project_intersection(coords, lyr).ret

\* C5: a single record with bad geometry is skipped: the result is the
\* result for the layer without that record.
C5_BadRecordSkipped ==
    \A i \in DOMAIN layer :
        (call # "init" /\ BadRecord(call, layer[i])
           /\ \A j \in DOMAIN layer \ {i} : ~BadRecord(call, layer[j]))
        => result = Returned(call, parcel_coords, RemoveAt(layer, i))

\* C6: the first project, in input order, that intersects the parcel is
\* returned and none after it is tested; None exactly when none intersects.
C6_FirstProject ==
    call = "check_planning_project_intersection" =>
        /\ (result = None) <=> (Matching = {})
        /\ Matching # {} =>
              /\ result = [kind |-> "project", name |-> layer[MinOf(Matching)].name]
              /\ \A k \in DOMAIN examined : examined[k] <= MinOf(Matching)

\* C6 witness: two intersecting projects, the first returned, the second untested.
C6_Witness ==
    /\ call = "check_planning_project_intersection"
    /\ Len(layer) = 2
    /\ Matches(1) /\ Matches(2)
    /\ layer[1].name # layer[2].name
    /\ result = [kind |-> "project", name |-> layer[1].name]
    /\ examined = <<1>>

(* ========================== claims: containers ========================= *)

Parsers == {"parse_egrn_xml", "parse_kpt_xml"}

IsProto(name) == name[1] = "proto_"

\* a member holding a document: a .xml/.xml.gz file whose bytes, from the
\* first '<' on, are well-formed
UsableMember(m) ==
    /\ Last(m.name) \in {".xml", ".XML", ".xml.gz"}
    /\ m.data \in {"wf", "bom+wf"}

\* C7: while the archive holds a well-formed .xml/.xml.gz member that is not
\* prefixed proto_, the member selected is never a proto_ one (data.xml is
\* selected over proto_data.xml, whatever the sizes and the archive order).
C7_ProtoNeverPreferred ==
    (call \in Parsers /\ input_bytes.kind = "zip" /\ result.kind = "parsed"
        /\ \E k \in DOMAIN input_bytes.members :
              UsableMember(input_bytes.members[k])
              /\ ~IsProto(input_bytes.members[k].name))
    => ~IsProto(input_bytes.members[result.member].name)

\* the buffer holds a document the parser could use
HoldsDocument ==
    IF input_bytes.kind = "zip"
    THEN \E k \in DOMAIN input_bytes.members : UsableMember(input_bytes.members[k])
    ELSE input_bytes.data \in {"wf", "bom+wf"}

\* C8: without a usable document (a ZIP with no usable .xml/.xml.gz member,
\* bytes without '<', bytes that are not well-formed XML) the parsers raise;
\* they never return a record.
C8_FailuresRaise ==
    (call \in Parsers /\ ~HoldsDocument) => result = Raised

\* C8 witness: each of the three failures has raised.
C8_Witness ==
    /\ call = "parse_egrn_xml"
    /\ input_bytes.kind = "zip"
    /\ Len(input_bytes.members) = 2
    /\ input_bytes.members[1].name = <<"data", ".xml">>
    /\ input_bytes.members[1].data = "malformed"
    /\ input_bytes.members[2].name = <<"data", ".xml.gz">>
    /\ input_bytes.members[2].data = "badgz"
    /\ result = Raised

\* C8 witness for a buffer that is no archive: markup that does not parse.
C8_WitnessRaw ==
    /\ call = "parse_kpt_xml"
    /\ input_bytes = [kind |-> "raw", data |-> "malformed"]
    /\ result = Raised

(* ======================= claims: field extraction ====================== *)

FieldCalls == {"egrn_first_text", "kpt_first_text"}

\* the stripped texts of candidate k's matches
MatchTexts(k) == [m \in DOMAIN document[xpaths[k]].texts |->
                      Strip(document[xpaths[k]].texts[m])]

\* candidates with non-empty text somewhere among their matches
YieldingAnywhere == {k \in DOMAIN xpaths : \E m \in DOMAIN MatchTexts(k) : MatchTexts(k)[m] # <<>>}

\* candidates whose first match has non-empty text
YieldingFirst == {k \in DOMAIN xpaths : MatchTexts(k) # <<>> /\ MatchTexts(k)[1] # <<>>}

\* C9 (as stated): the result is a value of the first candidate, in list
\* order, with non-empty text anywhere among its matches; null when no
\* candidate has any.
C9_FirstYieldingAnywhere ==
    call \in FieldCalls =>
        IF YieldingAnywhere = {} THEN result = None
        ELSE LET k == MinOf(YieldingAnywhere)
             IN /\ result.kind = "text"
                /\ \E m \in DOMAIN MatchTexts(k) : result.val = MatchTexts(k)[m]

\* C9 (amended): the result is the stripped text of the first match of the
\* first candidate, in list order, whose first match is non-empty after
\* stripping; a candidate whose first match is empty is passed over even when
\* a later match of it has text; null when there is no such candidate.
C9_FirstMatchOfFirstYielding ==
    call \in FieldCalls =>
        IF YieldingFirst = {} THEN result = None
        ELSE result = [kind |-> "text", val |-> MatchTexts(MinOf(YieldingFirst))[1]]

\* C9 witness: the first candidate has text only in its second match and is
\* passed over for the second candidate, whose value is returned stripped.
C9_Witness ==
    /\ call = "egrn_first_text"
    /\ xpaths = <<"p1", "p2">>
    /\ document["p1"].texts = <<<<" ">>, <<"a">>>>
    /\ document["p2"].texts = <<<<" ", "b", " ">>>>
    /\ result = [kind |-> "text", val |-> <<"b">>]

\* C9 witness: every candidate is empty or missing and the result is null.
C9_WitnessNull ==
    /\ call = "kpt_first_text"
    /\ xpaths = <<"p2", "p1">>
    /\ document["p1"].texts = <<>>
    /\ document["p2"].texts = <<<<" ">>>>
    /\ result = None

(* ==================== claims: land-parcel classification =============== *)

\* the token contains "land", ignoring case
ContainsLand(tok) == Lower(tok) \in {"land", "land_record"}

\* a land-specific container element occurs anywhere in the document
HasLandContainer == \E e \in {tree.local} \cup tree.elems : e \in LandContainers

\* C10 (as stated): is_land is true iff the root's local name contains
\* "land" or a land-specific container element occurs in the document.
C10_RootContainsLand ==
    call = "_extract_is_land" =>
        (result.val <=> ((\E k \in DOMAIN tree.local : ContainsLand(tree.local[k]))
                          \/ HasLandContainer))

\* C10 (amended): is_land is true iff the root's local name, lower-cased,
\* ends with extract_about_property_land or an element named land_record,
\* parcel or LandRecord (the root included) occurs in the document; a root
\* whose name merely contains "land" does not make the document a parcel.
C10_RootEndsWithExtractLand ==
    call = "_extract_is_land" =>
        (result.val <=>
            (\/ /\ Len(tree.local) >= 2
                /\ Lower(tree.local[Len(tree.local) - 1]) = "extract_about_property_"
                /\ Lower(Last(tree.local)) = "land"
             \/ HasLandContainer))

\* C10 witness: a root named land_plot without a container is not a parcel.
C10_Witness ==
    /\ call = "_extract_is_land"
    /\ tree.local = <<"land", "_plot">>
    /\ tree.elems = {<<"build_record">>}
    /\ result.val = FALSE

\* C10 witness: the root itself is the container.
C10_WitnessRoot ==
    /\ call = "_extract_is_land"
    /\ tree.local = <<"parcel">>
    /\ tree.elems = {}
    /\ result.val = TRUE

(* ===================== claims: cadastral record ======================== *)

Parsed_Egrn == call = "parse_egrn_document"

\* the texts an ordinate carries for a field: its child text, else attributes
FieldOf(o, child, a, b) ==
    LET t == IF o.children[child] # <<>> THEN Strip(o.children[child][1]) ELSE <<>>
        va == IF o.attrs[a] # None THEN o.attrs[a].text ELSE <<>>
        vb == IF o.attrs[b] # None THEN o.attrs[b].text ELSE <<>>
    IN IF t # <<>> THEN t ELSE Strip(IF va # <<>> THEN va ELSE vb)

\* the Coordinate read from an ordinate element
CoordOf(o) ==
    [num |-> FieldOf(o, "ord_nmb", "Num", "num"),
     x |-> FieldOf(o, "x", "X", "x"), y |-> FieldOf(o, "y", "Y", "y")]

Blank(c) == c.num = <<>> /\ c.x = <<>> /\ c.y = <<>>

\* the Coordinates a collection of ordinates yields, in document order
Yield(nodes) ==
    LET kept == SelectSeq(nodes, LAMBDA o : ~Blank(CoordOf(o)))
    IN [k \in DOMAIN kept |-> CoordOf(kept[k])]

\* the ordinates of the parcel boundary (contours_location)
BoundaryOrdinates == Concat(document.contours_location)

\* C11 (as stated): every coordinate of the Parcel comes from an ordinate of
\* the parcel-boundary subtree, and without ordinates there the list is empty.
C11_BoundaryOnly ==
    Parsed_Egrn =>
        /\ \A k \in DOMAIN result.coordinates :
              \E j \in DOMAIN BoundaryOrdinates :
                  result.coordinates[k] = CoordOf(BoundaryOrdinates[j])
        /\ (BoundaryOrdinates = <<>> => result.coordinates = <<>>)

\* C11 (amended): the coordinates come from one collection only: the
\* parcel-boundary subtree when it yields a coordinate, otherwise the
\* object_parts contours when they yield one, otherwise the old-format
\* EntitySpatial ordinates (attributes only); collections are never mixed.
C11_BoundaryThenFallbacks ==
    Parsed_Egrn =>
        result.coordinates =
            IF Yield(BoundaryOrdinates) # <<>> THEN Yield(BoundaryOrdinates)
            ELSE IF Yield(document.object_parts) # <<>> THEN Yield(document.object_parts)
            ELSE Yield([k \in DOMAIN document.EntitySpatial |->
                           [document.EntitySpatial[k] EXCEPT !.children = NoChildren]])

\* C11 witness: the boundary subtree yields nothing and the coordinates of
\* an object part are returned.
C11_Witness ==
    /\ Parsed_Egrn
    /\ document.contours_location = << <<OrdEmpty>> >>
    /\ document.object_parts = <<OrdEmpty, OrdNoNum>>
    /\ document.EntitySpatial = <<OrdAttrs>>
    /\ result.coordinates = << [num |-> <<>>, x |-> <<"5">>, y |-> <<"6">>] >>

\* C12: the Parcel holds a list of Contours, one per contour of the document
\* in document order, and the flattened coordinate list is their
\* concatenation.
C12_ContoursPreserved ==
    Parsed_Egrn =>
        /\ "contours" \in DOMAIN result
        /\ result.contours = [k \in DOMAIN document.contours_location |->
                                 Yield(document.contours_location[k])]
        /\ result.coordinates = Concat(result.contours)

\* C13: no extracted Coordinate that has x and y has an empty label (the
\* label falls back to the ordinate's 1-based running index).
C13_LabelNeverEmpty ==
    Parsed_Egrn =>
        \A k \in DOMAIN result.coordinates :
            (result.coordinates[k].x # <<>> /\ result.coordinates[k].y # <<>>)
                => result.coordinates[k].num # <<>>

\* the cad_number texts of the included-objects subtree, stripped
IncludedNumbers ==
    {Strip(document.fields.included_objects[k]) : k \in DOMAIN document.fields.included_objects}

\* C14: every linked capital object is a well-formed cadastral number taken
\* from the included-objects subtree and differs from the parcel's own
\* cadastral number.
C14_CapitalObjectsFiltered ==
    Parsed_Egrn =>
        \A k \in DOMAIN result.capital_objects :
            /\ CadnumFullmatch(result.capital_objects[k])
            /\ result.capital_objects[k] \in IncludedNumbers
            /\ (result.cadnum # None => result.capital_objects[k] # result.cadnum.val)

\* C14 witness: the parcel's own number and a padded number are listed; only
\* the other number is returned, stripped.
C14_Witness ==
    /\ Parsed_Egrn
    /\ result.cadnum = [kind |-> "text", val |-> OwnCad]
    /\ document.fields.included_objects = << OwnCad, <<" ">> \o OtherCad \o <<" ">> >>
    /\ result.capital_objects = << OtherCad >>

\* C14 witness: a malformed string is dropped.
C14_WitnessMalformed ==
    /\ Parsed_Egrn
    /\ document.fields.included_objects = << OtherCad \o <<"x">>, OtherCad >>
    /\ result.capital_objects = << OtherCad >>

\* C15: absent optional fields are null and has_coords is true exactly when
\* the record holds a coordinate with x and y.
C15_HasCoordsExact ==
    Parsed_Egrn =>
        /\ (document.fields.cad_number = <<>> /\ document.fields.cadnum = <<>>
                => result.cadnum = None)
        /\ (document.fields.readable_address = <<>> => result.address = None)
        /\ (document.fields.area_value = <<>> => result.area = None)
        /\ (document.fields.region = <<>> => result.region = None)
        /\ (result.has_coords <=>
                \E k \in DOMAIN result.coordinates :
                    result.coordinates[k].x # <<>> /\ result.coordinates[k].y # <<>>)

(* ========================= claims: zone map ============================ *)

Parsed_Kpt == call = "parse_kpt_document"

\* the record a returned zone was read from
RecordOf(k) == document[examined[k].shape][examined[k].index]

\* C16 (as stated): whenever the primary shape contains at least one record,
\* no zone of the secondary shape is returned.
C16_PrimaryRecordExcludesSecondary ==
    (Parsed_Kpt /\ document.zones_and_territories_records # <<>>)
        => \A k \in DOMAIN examined : examined[k].shape = "zones_and_territories_records"

\* a record with at least one kept contour
HasContours(rec) == extract_polygons_under(rec.contours_location) # <<>>

\* C16 (amended): the primary shape is tried first; when at least one of its
\* records has a kept contour, every returned zone is a primary one;
\* otherwise (no primary record, or none with a kept contour) every returned
\* zone is a secondary one.
C16_PrimaryZoneExcludesSecondary ==
    Parsed_Kpt =>
        IF \E j \in DOMAIN document.zones_and_territories_records :
               HasContours(document.zones_and_territories_records[j])
        THEN /\ examined # <<>>
             /\ \A k \in DOMAIN examined : examined[k].shape = "zones_and_territories_records"
        ELSE /\ \A k \in DOMAIN examined : examined[k].shape = "territorial_zones"
             /\ Len(examined) = Cardinality({j \in DOMAIN document.territorial_zones :
                                                HasContours(document.territorial_zones[j])})

\* C16 witness: the only primary record has no usable contour and the zone
\* of the secondary shape is returned.
C16_Witness ==
    /\ Parsed_Kpt
    /\ Len(document.zones_and_territories_records) = 1
    /\ document.zones_and_territories_records[1].contours_location = RingBad
    /\ examined = << [shape |-> "territorial_zones", index |-> 1] >>
    /\ result.zones[1].name = <<"J">>

\* C16 witness: a primary zone is returned and the secondary zone is not.
C16_WitnessPrimary ==
    /\ Parsed_Kpt
    /\ Len(document.territorial_zones) = 1
    /\ HasContours(document.territorial_zones[1])
    /\ examined = << [shape |-> "zones_and_territories_records", index |-> 2] >>

\* C17: every returned zone comes from a record whose declared boundary
\* type contains the territorial-zone phrase.
C17_TerritorialOnly ==
    Parsed_Kpt =>
        \A k \in DOMAIN examined :
            \E m \in DOMAIN RecordOf(k).texts.type_boundary :
                \E c \in DOMAIN RecordOf(k).texts.type_boundary[m] :
                    RecordOf(k).texts.type_boundary[m][c] = "territorial"

\* the first text of a field of a record, stripped
FieldText(rec, p) == IF rec.texts[p] = <<>> THEN <<>> ELSE Strip(rec.texts[p][1])

\* C18: the name of a returned zone is the first non-empty value in the
\* priority order (explicit name, description, ...), and is never empty.
C18_NameResolved ==
    Parsed_Kpt =>
        \A k \in DOMAIN examined :
            LET rec == RecordOf(k)
                cands == SelectSeq(<<FieldText(rec, "zone_name"), FieldText(rec, "name"),
                                     FieldText(rec, "description")>>,
                                   LAMBDA t : t # <<>>)
            IN /\ result.zones[k].name # <<>>
               /\ cands # <<>>
               /\ result.zones[k].name = cands[1]

\* C19: every contour of every returned zone is closed and has at least 3
\* distinct coordinate pairs.
C19_ContoursValid ==
    Parsed_Kpt =>
        \A k \in DOMAIN result.zones :
            \A m \in DOMAIN result.zones[k].contours :
                LET poly == result.zones[k].contours[m]
                IN /\ poly[1] = Last(poly)
                   /\ Cardinality({poly[i] : i \in DOMAIN poly}) >= 3

(* ======================= claims: polygon builder ======================= *)

DistinctPoints(contour) == Cardinality({contour[i] : i \in DOMAIN contour})

\* C20 (as stated): _make_polygon returns 'rejected' (None) for every
\* contour with fewer than 3 distinct points.
C20_DegenerateRejected ==
    (call \in Resolvers /\ DistinctPoints(parcel_coords) < 3)
        => MakePolygon(parcel_coords) = None

\* C20 (amended): for a contour with fewer than 3 distinct points
\* _make_polygon returns None when it has fewer than 3 points and an empty
\* polygon otherwise; neither is used as a polygon: the resolvers return no
\* zone for such a parcel contour, and determine_zone never returns a zone
\* none of whose contours has 3 distinct points.
C20_DegenerateNeverUsed ==
    /\ (call \in Resolvers /\ DistinctPoints(parcel_coords) < 3)
          => /\ MakePolygon(parcel_coords) =
                    IF Len(parcel_coords) < 3 THEN None ELSE Poly({})
             /\ result = None
    /\ (call = "determine_zone" /\ result # None)
          => \E i \in DOMAIN layer :
                /\ result = ZoneName(layer[i].name)
                /\ \E m \in DOMAIN ZoneShapeOf(layer[i]).contours :
                      DistinctPoints(ZoneShapeOf(layer[i]).contours[m]) >= 3

\* C20 witness: the parcel contour A, B, A lies on a zone and no zone is
\* returned.
C20_Witness ==
    /\ call = "determine_zone"
    /\ parcel_coords = Flat
    /\ Len(layer) = 1
    /\ layer[1].geometry = Geom({0, 1}, "ok")
    /\ result = None

\* C20 witness: the same for the contour A, A, A and find_zone_for_parcel.
C20_WitnessSame ==
    /\ call = "find_zone_for_parcel"
    /\ parcel_coords = Same
    /\ Len(layer) = 1
    /\ layer[1].geometry = Geom({0}, "ok")
    /\ result = None

(* ===================== claims: concurrent workflows ==================== *)

RECURSIVE SoloRun(_)
\* the frames an invocation passes through when it runs alone
SoloRun(f) == IF f.pc = "done" THEN {f} ELSE {f} \cup SoloRun(StepOf(f))

Fresh(f) == Frame(f.fn, f.parcel, f.records, f.bytes)

\* C21: under any interleaving of the workflows' invocations, without
\* locking, every invocation passes only through the frames of its run
\* alone on the same arguments (no step of another invocation shows in its
\* variables) and returns the result of that run.
C21_InvocationsIsolated ==
    \A w \in DOMAIN frames :
        /\ frames[w] \in SoloRun(Fresh(frames[w]))
        /\ frames[w].pc = "done" => frames[w].ret = Alone(frames[w])

\* two invocations inside their loops at once, each having found something
C21_Witness ==
    /\ DOMAIN frames = Workflows
    /\ \A w \in Workflows :
          /\ frames[w].pc = "loop" /\ frames[w].i = 2
          /\ frames[w].acc.area > 0 \/ frames[w].acc.items # <<>>

(* ========================= claims: TU journal ========================== *)

InsideLock(p) == workers[p].pc \in {"locked", "built"}
HasRead(p) == workers[p].pc \in {"built", "returned"}
HasReturned(p) == workers[p].pc = "returned"

\* the rows a call wrote into its workbook
RowsOf(p) ==
    {workers[p].wb[i] : i \in {j \in DOMAIN workers[p].wb :
                                  workers[p].wb[j].incoming = p}}
RowsRead(p) == {workers[p].read[i] : i \in DOMAIN workers[p].read}
NumbersOf(p) == {workers[p].docs[i].out_num : i \in DOMAIN workers[p].docs}

\* C22: at most one process at a time is between reading and saving the
\* journal; of two calls, the one that read the journal second read what the
\* first had saved; no outgoing number is on documents of two calls.
C22_JournalMutualExclusion ==
    \A p \in DOMAIN workers : \A q \in DOMAIN workers \ {p} :
        /\ ~(InsideLock(p) /\ InsideLock(q))
        /\ (HasRead(p) /\ HasReturned(q))
              => (RowsOf(q) \subseteq RowsRead(p) \/ RowsOf(p) \subseteq RowsRead(q))
        /\ (HasReturned(p) /\ HasReturned(q)) => NumbersOf(p) \cap NumbersOf(q) = {}

\* two calls at the same time, both returned numbered documents
C22_Witness ==
    /\ DOMAIN workers = Processes
    /\ \A p \in Processes : HasReturned(p) /\ workers[p].docs # <<>>
    /\ \E p \in Processes : RowsRead(p) # {} /\ RowsOf(p) # {}
                            /\ \E q \in Processes \ {p} : RowsOf(q) \subseteq RowsRead(p)

\* the integer-parsable values of the outgoing-number column
ParsableNumbers(rows) ==
    {rows[i].out_num.n : i \in {j \in DOMAIN rows :
                                   rows[j].out_num.kind \in {"int", "str"}}}
GreatestNumber(rows) ==
    IF ParsableNumbers(rows) = {} THEN 0 ELSE MaxOf(ParsableNumbers(rows))

\* the k-th template that exists, in the order of TEMPLATE_CONFIG
KthTemplate(templates, k) ==
    CHOOSE t \in templates : Cardinality({u \in templates : u < t}) = k - 1

\* C23: a successful call generated one document per existing template, in
\* template order; the k-th has the outgoing number M + k, M the greatest
\* integer-parsable outgoing number the journal held (0 if none); the
\* workbook it saved, once, is the journal it read followed by one row per
\* document carrying that number.
C23_OutgoingNumbering ==
    \A p \in DOMAIN workers :
        HasReturned(p) =>
            LET M == GreatestNumber(workers[p].read)
                n == Cardinality(journal.templates)
            IN /\ workers[p].docs =
                     [k \in 1 .. n |-> [template |-> KthTemplate(journal.templates, k),
                                        out_num |-> M + k]]
               /\ workers[p].wb =
                     workers[p].read \o [k \in 1 .. n |-> Row(Num(M + k), p)]
               /\ workers[p].saves = 1
               /\ workers[p].ret = List(workers[p].docs)

\* a call that skipped a missing template, on a journal whose greatest
\* number is not in its last row
C23_Witness ==
    \E p \in DOMAIN workers :
        /\ HasReturned(p)
        /\ Len(workers[p].docs) = 2
        /\ Len(workers[p].read) = 2
        /\ GreatestNumber(workers[p].read) = 2
        /\ workers[p].read[2].out_num.kind # "str"
        /\ journal.rows = workers[p].wb

\* C24 (as stated): a call that fails raises, returns no documents and
\* leaves the journal file as it was.
C24_FailureLeavesJournal ==
    [][\A p \in DOMAIN workers :
          (workers[p].pc # "raised" /\ workers'[p].pc = "raised")
              => /\ workers'[p].ret = Raised /\ workers'[p].docs = <<>>
                 /\ journal' = journal]_vars

(* ============================ claims: chat ============================= *)

\* C25: every GPZU document sent to the chat was generated with a zone code
\* that is a key of ZONES, and one generated after a KPT in which no code
\* was detected was generated from the user's manual selection.
C25_ZoneAlwaysSelected ==
    chat # None =>
        \A k \in DOMAIN chat.documents :
            /\ chat.documents[k].zone_code # None
            /\ chat.documents[k].zone_code.val \in ZoneKeys
            /\ chat.documents[k].detected = None => chat.documents[k].manual

(* ======================== claims: the analysis ========================= *)

Applications == DOMAIN examined

\* at least one coordinate of the parcel parses to a pair of numbers
Parseable(gp) ==
    \E i \in DOMAIN gp.coordinates :
        CoordFloat(gp.coordinates[i].x) # Raised
        /\ CoordFloat(gp.coordinates[i].y) # Raised

\* the warnings and errors an application added
Added(old, new) == {new[i] : i \in (DOMAIN new) \ (DOMAIN old)}
Recorded(app) ==
    Added(app.before.warnings, app.after.warnings)
    \cup Added(app.before.errors, app.after.errors)

IsPrefix(s, t) == Len(s) <= Len(t) /\ SubSeq(t, 1, Len(s)) = s

\* C26 (as stated): after a second application to the same GPData, with the
\* same layer files, zone, capital_objects, planning_project and zouit are
\* what they were after the first.
C26_NoAccumulation ==
    (call = "perform_spatial_analysis" /\ Len(examined) >= 2)
        => /\ examined[2].after.zone = examined[1].after.zone
           /\ examined[2].after.capital_objects = examined[1].after.capital_objects
           /\ examined[2].after.planning_project = examined[1].after.planning_project
           /\ examined[2].after.zouit = examined[1].after.zouit

Unusable(stage) == layers[stage].kind \in {"missing", "broken"}

\* C28 (as stated): with a parseable coordinate the four stages run in
\* order, every stage whose layer file is missing or whose layer raises
\* leaves a warning or an error, and analysis_completed is true on return.
C28_StagesRunAndRecord ==
    call = "perform_spatial_analysis" =>
        \A k \in Applications :
            Parseable(examined[k].before) =>
                /\ examined[k].stages = StageOrder
                /\ examined[k].after.analysis_completed
                /\ \A s \in {StageOrder[j] : j \in DOMAIN StageOrder} :
                      Unusable(s) => \E m \in Recorded(examined[k]) : m.stage = s

\* C28 (amended): with a parseable coordinate the four stages run in order
\* and analysis_completed is true on return; a missing layer file of the
\* zone, capital-object or planning-project stage and an exception in any
\* stage leave a warning or an error and the later stages still run; a
\* missing ZOUIT layer file leaves nothing.
C28_StagesRunAndRecordButZouit ==
    call = "perform_spatial_analysis" =>
        \A k \in Applications :
            Parseable(examined[k].before) =>
                /\ examined[k].stages = StageOrder
                /\ examined[k].after.analysis_completed
                /\ \A s \in {StageOrder[j] : j \in DOMAIN StageOrder} :
                      IF s = "zouit" /\ layers[s].kind = "missing"
                      THEN \A m \in Recorded(examined[k]) : m.stage # s
                      ELSE Unusable(s)
                              => \E m \in Recorded(examined[k]) : m.stage = s

\* a coordinate list with a pair that does not parse, no zone layer, a
\* capital-object layer that raises, and a ZOUIT stage that found a zone
C28_Witness ==
    /\ call = "perform_spatial_analysis"
    /\ \E i \in DOMAIN gp_data.coordinates :
          CoordFloat(gp_data.coordinates[i].x) = Raised
    /\ layers.zone.kind = "missing"
    /\ layers.capital_objects.kind = "broken"
    /\ examined[1].after.zouit # <<>>
    /\ examined[1].after.analysis_completed

\* the ZOUIT layer file is missing and the stages before it found something
C28_WitnessZouit ==
    /\ call = "perform_spatial_analysis"
    /\ layers.zouit.kind = "missing"
    /\ examined[1].after.zone # None
    /\ examined[1].stages = StageOrder

\* C29: when no coordinate of the parcel parses, an application appends
\* exactly one error, runs no stage, leaves analysis_completed false and
\* leaves zone, capital_objects, planning_project, zouit and warnings alone.
C29_NoCoordinatesNoAnalysis ==
    call = "perform_spatial_analysis" =>
        \A k \in Applications :
            ~Parseable(examined[k].before) =>
                LET before == examined[k].before
                    after == examined[k].after
                IN /\ Len(after.errors) = Len(before.errors) + 1
                   /\ IsPrefix(before.errors, after.errors)
                   /\ examined[k].stages = <<>>
                   /\ ~after.analysis_completed
                   /\ after.zone = before.zone
                   /\ after.capital_objects = before.capital_objects
                   /\ after.planning_project = before.planning_project
                   /\ after.zouit = before.zouit
                   /\ after.warnings = before.warnings

\* coordinates that are there and do not parse, with layers that would match
C29_Witness ==
    /\ call = "perform_spatial_analysis"
    /\ gp_data.coordinates # <<>>
    /\ ~Parseable(gp_data)
    /\ layers.zone.kind = "records" /\ layers.zone.records # <<>>
    /\ Len(gp_data.errors) = 2

(* ===================== claims: the two resolvers ======================= *)

\* the parcel contour builds a non-empty polygon
BuildableParcel == Len(parcel_coords) >= 3 /\ PolygonCells(parcel_coords) # {}

\* every zone of the layer has a geometry the GEOS operations work on
BuildableZones ==
    \A i \in DOMAIN layer :
        /\ layer[i].geometry.kind = "geom"
        /\ layer[i].geometry.fault = "ok"

\* C27: on a buildable parcel and zones of buildable geometry, the zone
\* one resolver returned is the zone the other returns for the same
\* arguments, and when one returned none so does the other.
C27_ResolversAgree ==
    (BuildableParcel /\ BuildableZones) =>
        /\ call = "determine_zone"
              => result = find_zone_for_parcel(parcel_coords, layer)
        /\ call = "find_zone_for_parcel"
              => result = determine_zone(Parcel(parcel_coords), ZoneShapes(layer))

\* two zones of equal overlap, neither holding the centroid: the areas
\* decide, and both resolvers return the first
C27_Witness ==
    /\ call = "determine_zone"
    /\ BuildableParcel /\ BuildableZones
    /\ Len(layer) = 2
    /\ result = ZoneName(layer[1].name)
    /\ ~Contains(layer[1].geometry.cells, Centroid(PolygonCells(parcel_coords)))
    /\ IntersectionArea(PolygonCells(parcel_coords), layer[2].geometry.cells)
           = IntersectionArea(PolygonCells(parcel_coords), layer[1].geometry.cells)

(* ========================== claims: download =========================== *)

Failed(k) == download.tries[k].kind = "raise"

\* what holds of a call with retries >= 1 at every moment
BoundedRetry ==
    (download # None /\ download.retries >= 1) =>
        /\ Len(download.tries) <= download.retries
        /\ download.pc = "returned" =>
              /\ download.tries # <<>>
              /\ \A k \in 1 .. Len(download.tries) - 1 : Failed(k)
              /\ download.ret = download.tries[Len(download.tries)]
              /\ download.ret.kind = "bytes"
        /\ download.pc = "raised" =>
              /\ Len(download.tries) = download.retries
              /\ \A k \in DOMAIN download.tries : Failed(k)
              /\ download.ret = download.tries[download.retries]

Ended == download # None /\ download.pc \in {"returned", "raised"}

\* C30: a call with retries >= 1 makes at most `retries` attempts; when it
\* returns, it returns the data of its last attempt, the first that
\* succeeded; when it raises, all `retries` attempts failed and it raises
\* the exception of the last; and it does end.
C30_BoundedRetry == []BoundedRetry /\ <>Ended

\* returned at the third attempt of four
C30_Witness ==
    /\ download # None
    /\ download.retries = 4
    /\ download.pc = "returned"
    /\ Len(download.tries) = 3
    /\ download.tries[1] # download.tries[2]

\* raised the exception of the last of three attempts, not that of the first
C30_WitnessRaised ==
    /\ download # None
    /\ download.retries = 3
    /\ download.pc = "raised"
    /\ download.ret # download.tries[1]

====
